---------------------------- MODULE Spec2Model ----------------------------
(***************************************************************************)
(* A model of phosphor-rs: the input decoder (src/input.rs), the terminal  *)
(* device wrapper (src/terminal.rs) and the runtime loop (src/lib.rs).     *)
(*                                                                         *)
(* Bytes are the integers 0..255.  Events are records; a sequence of       *)
(* events models Vec<Event>.                                               *)
(***************************************************************************)
EXTENDS Integers, Sequences, FiniteSets, TLC

VARIABLES
    \* ---- Parser (src/input.rs) ----
    buffer,          \* Parser::buffer, the residual undecoded bytes
    \* ---- one Parser fed a byte stream in consecutive parse calls ----
    stream,          \* the bytes fed so far, in order
    emitted,         \* concatenation of the events returned so far
    was_pending,     \* has_pending_state() as observed just before the last call
    \* ---- the last Parser call (parse / finish_incomplete) ----
    last,
    \* ---- the System behind the Terminal (src/terminal.rs) ----
    system,          \* "MockSystem", or "AnySystem": any implementation of the trait
    input_buffer,    \* bytes the device holds for read (MockSystem::input_buffer)
    max_read_size,   \* MockSystem::max_read_size: {} is None, {n} is Some(n)
    \* ---- Input::read (src/input.rs) ----
    rpc,             \* where Input::read stands: "idle" (not in a call), "poll", "read"
    cyc,             \* the current (or last finished) read cycle
    delivered,       \* concatenation of the events returned by the finished cycles
    preload,         \* the bytes pushed into the device before the first cycle
    \* ---- Terminal (src/terminal.rs) and run_app (src/lib.rs) ----
    tpc,             \* where the program stands: "off", "new.*", "app.*", "loop.*", "drop.*", "done"
    original_termios,\* Terminal::original_termios: {} is None, {cfg} is Some(cfg)
    log,             \* the System calls made so far, in order (as MockSystem::log)
    built_at,        \* length of log when new_with_system returned Ok, else -1
    drop_at,         \* length of log when Drop for Terminal began, else -1
    failed,          \* the teardown steps whose System call failed
    sink,            \* the records written to the diagnostic sink (debug.log)
    logger_init,     \* whether logger::init() has been called
    io_err,          \* the device calls of Input::read ("read", "poll") that returned Err
    result,          \* what the caller of new_with_system / run_app got
    held,            \* Renderer::current_buffer's dimensions
    wsize,           \* the dimensions of the frame being drawn
    todo,            \* the writes of the render in progress still to make
    batch,           \* the events of the last read cycle still to dispatch
    \* ---- Buffer (src/buffer.rs) and Renderer (src/renderer.rs) ----
    profile,         \* the build: "debug" (overflow checks on) or "release" (wrapping)
    panicked,        \* "none", or the panic that ended the program
    current_buffer,  \* Renderer::current_buffer
    next_buffer,     \* the Buffer of the frame being drawn (run_app's next_buffer)
    phase,           \* "off", "start", "draw" (frame open), "rendered"
    writes,          \* the device writes of this frame's render call, in order
    rres,            \* the result of this frame's render call: "none", "ok", "err"
    rprev,           \* current_buffer as it was when this frame's render began
    last_ok,         \* {b}: the previous render call was given b and returned Ok; else {}
    again,           \* this frame's render directly followed an Ok render of an equal buffer
    bop,             \* the last Buffer::set call of this frame and the buffer it found
    \* ---- Layout (src/layout.rs) ----
    split_call,      \* the Layout::split call made: its arguments and its result
    \* ---- Frame (src/frame.rs) ----
    frame,           \* the Frame: buffer, area, current_style, and the old_style of
                     \* every with_style call in progress
    frame_call,      \* the last Frame call and what it found
    \* ---- Color (src/style.rs) ----
    hex_call         \* the Color::from_hex call made: its argument and its result

parserVars == <<buffer>>
fragVars == <<stream, emitted, was_pending>>
callVars == <<last>>
sysVars == <<system, input_buffer, max_read_size>>
readVars == <<rpc, cyc, delivered, preload>>
termVars == <<tpc, original_termios, log, built_at, drop_at, failed, sink,
              logger_init, io_err, result, held, wsize, todo, batch>>
renderVars == <<profile, panicked, current_buffer, next_buffer, phase, writes, rres, rprev,
                last_ok, again, bop>>
layoutVars == <<split_call>>
frameVars == <<frame, frame_call>>
styleVars == <<hex_call>>
vars == <<buffer, stream, emitted, was_pending, last,
          system, input_buffer, max_read_size, rpc, cyc, delivered, preload,
          tpc, original_termios, log, built_at, drop_at, failed, sink,
          logger_init, io_err, result, held, wsize, todo, batch,
          profile, panicked, current_buffer, next_buffer, phase, writes, rres, rprev,
          last_ok, again, bop, split_call, frame, frame_call, hex_call>>

-----------------------------------------------------------------------------
(* Bounds of the model *)

\* longest side of a small Buffer
MaxSide == 2

\* most cells of a small Buffer
MaxArea == 4

\* longest byte sequence cut into chunks
MaxLen == 5

\* longest slice handed to one Parser::parse call
MaxChunk == 2

\* longest input pre-loaded into the device
MaxQueue == 4

\* largest per-call read cap of the MockSystem
MaxCap == 3

\* most System calls recorded before run_app is cut short (teardown is never cut)
MaxCalls == 15

\* most cells one frame changes
MaxCells == 1

\* most complete units in one input of the single-call parser specification
MaxUnits == 3

\* longest arbitrary byte string given to a single parse call
MaxBytes == 4

\* most constraints of one Layout
MaxConstraints == 3

\* deepest nesting of with_style calls, and of render_area calls
MaxNest == 2

\* longest text given to write_str
MaxText == 2

\* most calls made on one Frame
MaxFrameCalls == 4

\* most chars of a freely chosen string given to Color::from_hex
MaxHexLen == 6

\* most bytes pre-loaded on the device where termination is checked
MaxPending == 3

-----------------------------------------------------------------------------
(* Byte values named in the source *)

CR == 13
ESC == 27
LBRACKET == 91
UPPER_A == 65
UPPER_M == 77

Min(a, b) == IF a < b THEN a ELSE b
Max(a, b) == IF a > b THEN a ELSE b

\* u8::saturating_sub
SatSub(a, b) == Max(a - b, 0)

\* All sequences over S of length 0..n
RECURSIVE SeqsUpTo(_, _)
SeqsUpTo(S, n) ==
    IF n = 0 THEN {<<>>}
    ELSE LET shorter == SeqsUpTo(S, n - 1)
         IN  shorter \cup {Append(s, b) : s \in {t \in shorter : Len(t) = n - 1}, b \in S}

\* VecDeque::pop_front n times (Parser::consume)
consume(buf, n) == SubSeq(buf, Min(n, Len(buf)) + 1, Len(buf))

-----------------------------------------------------------------------------
(* Events *)

NoMods == {}

KeyChar(c) == [name |-> "Char", ch |-> c]
KeyEnter == [name |-> "Enter", ch |-> 0]
KeyEsc == [name |-> "Esc", ch |-> 0]
KeyUp == [name |-> "Up", ch |-> 0]

\* mutant: the event is built by KeyEvent::with_modifiers with SHIFT
KeyEvent_WithShift(code) ==
    [tag |-> "Key", code |-> code, modifiers |-> {"SHIFT"}, x |-> 0, y |-> 0, kind |-> "None"]

\* KeyEvent::new wrapped in Event::Key
KeyEvent(code) ==
    [tag |-> "Key", code |-> code, modifiers |-> NoMods, x |-> 0, y |-> 0, kind |-> "None"]

\* MouseEvent::new wrapped in Event::Mouse
MouseEvent(mx, my, mkind) ==
    [tag |-> "Mouse", code |-> [name |-> "None", ch |-> 0], modifiers |-> NoMods,
     x |-> mx, y |-> my, kind |-> mkind]

-----------------------------------------------------------------------------
(* UTF-8 *)

utf8_char_width(first_byte) ==
    IF first_byte < 128 THEN 1
    ELSE IF first_byte >= 192 /\ first_byte < 224 THEN 2
    ELSE IF first_byte >= 224 /\ first_byte < 240 THEN 3
    ELSE IF first_byte >= 240 /\ first_byte < 248 THEN 4
    ELSE 0

IsCont(b) == b >= 128 /\ b < 192

\* std::str::from_utf8 on exactly utf8_char_width(bytes[1]) bytes: is it Ok?
from_utf8_ok(bytes) ==
    LET w == Len(bytes)
        b1 == bytes[1]
    IN  CASE w = 1 -> b1 < 128
          [] w = 2 -> b1 >= 194 /\ b1 <= 223 /\ IsCont(bytes[2])
          [] w = 3 ->
                /\ IsCont(bytes[2]) /\ IsCont(bytes[3])
                /\ (b1 = 224 => bytes[2] >= 160)
                /\ (b1 = 237 => bytes[2] < 160)
          [] w = 4 ->
                /\ b1 <= 244
                /\ IsCont(bytes[2]) /\ IsCont(bytes[3]) /\ IsCont(bytes[4])
                /\ (b1 = 240 => bytes[2] >= 144)
                /\ (b1 = 244 => bytes[2] < 144)
          [] OTHER -> FALSE

\* s.chars().next() of a valid encoding: the scalar value
utf8_scalar(bytes) ==
    LET w == Len(bytes)
    IN  CASE w = 1 -> bytes[1]
          [] w = 2 -> (bytes[1] % 32) * 64 + (bytes[2] % 64)
          [] w = 3 -> (bytes[1] % 16) * 4096 + (bytes[2] % 64) * 64 + (bytes[3] % 64)
          [] OTHER -> (bytes[1] % 8) * 262144 + (bytes[2] % 64) * 4096
                       + (bytes[3] % 64) * 64 + (bytes[4] % 64)

-----------------------------------------------------------------------------
(* Parser::parse *)

\* the match on cb.saturating_sub(32)
MouseKindOf(cb) ==
    LET k == SatSub(cb, 32)
    IN  CASE k = 0 -> "LeftClick"
          [] k = 1 -> "MiddleClick"
          [] k = 2 -> "RightClick"
          [] k = 64 -> "ScrollUp"
          [] k = 65 -> "ScrollDown"
          [] OTHER -> "Other"

\* the event built from the three data bytes of an X10 report
MouseReport(cb, cx, cy) == MouseEvent(SatSub(cx, 33), SatSub(cy, 33), MouseKindOf(cb))

\* "Incomplete, wait for more data": a lone ESC
EscAlone(buf) == Len(buf) = 1

\* mutant: the `ESC [` prefix is not held back
CsiIncomplete_NoWait(buf) == FALSE

\* "Incomplete CSI, wait for more data"
CsiIncomplete(buf) == buf[2] = LBRACKET /\ Len(buf) < 3

\* mutant: the report is held back until a seventh byte arrives
MouseIncomplete_SevenBytes(buf) == Len(buf) < 7

\* the X10 report needs 3 header + 3 data bytes
MouseIncomplete(buf) == Len(buf) < 6

\* mutant: a failed decode drops the lead byte only
ParseStep_InvalidDropsOne(buf) ==
    LET Stop == [stop |-> TRUE, n |-> 0, ev |-> <<>>]
        Take(k, e) == [stop |-> FALSE, n |-> k, ev |-> e]
    IN  IF buf[1] = CR THEN Take(1, <<KeyEvent(KeyEnter)>>)
        ELSE IF buf[1] = ESC THEN
            IF EscAlone(buf) THEN Stop
            ELSE IF CsiIncomplete(buf) THEN Stop
            ELSE IF Len(buf) >= 3 /\ buf[2] = LBRACKET THEN
                IF buf[3] = UPPER_A THEN Take(3, <<KeyEvent(KeyUp)>>)
                ELSE IF buf[3] = UPPER_M THEN
                    IF MouseIncomplete(buf) THEN Stop
                    ELSE Take(6, <<MouseReport(buf[4], buf[5], buf[6])>>)
                ELSE Take(1, <<KeyEvent(KeyEsc)>>)
            ELSE Take(1, <<KeyEvent(KeyEsc)>>)
        ELSE
            LET width == utf8_char_width(buf[1])
            IN  IF width = 0 THEN Take(1, <<>>)
                ELSE IF Len(buf) >= width THEN
                    LET bytes == SubSeq(buf, 1, width)
                    IN  IF from_utf8_ok(bytes)
                        THEN Take(width, <<KeyEvent(KeyChar(utf8_scalar(bytes)))>>)
                        ELSE Take(1, <<>>)
                ELSE Stop

\* mutant: an unrecognised `ESC [ x` is consumed whole with its Esc event
ParseStep_FallbackEatsSequence(buf) ==
    LET Stop == [stop |-> TRUE, n |-> 0, ev |-> <<>>]
        Take(k, e) == [stop |-> FALSE, n |-> k, ev |-> e]
    IN  IF buf[1] = CR THEN Take(1, <<KeyEvent(KeyEnter)>>)
        ELSE IF buf[1] = ESC THEN
            IF EscAlone(buf) THEN Stop
            ELSE IF CsiIncomplete(buf) THEN Stop
            ELSE IF Len(buf) >= 3 /\ buf[2] = LBRACKET THEN
                IF buf[3] = UPPER_A THEN Take(3, <<KeyEvent(KeyUp)>>)
                ELSE IF buf[3] = UPPER_M THEN
                    IF MouseIncomplete(buf) THEN Stop
                    ELSE Take(6, <<MouseReport(buf[4], buf[5], buf[6])>>)
                ELSE Take(3, <<KeyEvent(KeyEsc)>>)
            ELSE Take(1, <<KeyEvent(KeyEsc)>>)
        ELSE
            LET width == utf8_char_width(buf[1])
            IN  IF width = 0 THEN Take(1, <<>>)
                ELSE IF Len(buf) >= width THEN
                    LET bytes == SubSeq(buf, 1, width)
                    IN  Take(width,
                             IF from_utf8_ok(bytes)
                             THEN <<KeyEvent(KeyChar(utf8_scalar(bytes)))>>
                             ELSE <<>>)
                ELSE Stop

\* One turn of the loop of Parser::parse on a non-empty buffer:
\* stop = TRUE is `break`; otherwise `n` bytes are popped and `ev` pushed.
ParseStep(buf) ==
    LET Stop == [stop |-> TRUE, n |-> 0, ev |-> <<>>]
        Take(k, e) == [stop |-> FALSE, n |-> k, ev |-> e]
    IN  IF buf[1] = CR THEN Take(1, <<KeyEvent(KeyEnter)>>)
        ELSE IF buf[1] = ESC THEN
            IF EscAlone(buf) THEN Stop
            ELSE IF CsiIncomplete(buf) THEN Stop
            ELSE IF Len(buf) >= 3 /\ buf[2] = LBRACKET THEN
                IF buf[3] = UPPER_A THEN Take(3, <<KeyEvent(KeyUp)>>)
                ELSE IF buf[3] = UPPER_M THEN
                    IF MouseIncomplete(buf) THEN Stop
                    ELSE Take(6, <<MouseReport(buf[4], buf[5], buf[6])>>)
                ELSE Take(1, <<KeyEvent(KeyEsc)>>)
            ELSE Take(1, <<KeyEvent(KeyEsc)>>)
        ELSE
            LET width == utf8_char_width(buf[1])
            IN  IF width = 0 THEN Take(1, <<>>)
                ELSE IF Len(buf) >= width THEN
                    LET bytes == SubSeq(buf, 1, width)
                    IN  Take(width,
                             IF from_utf8_ok(bytes)
                             THEN <<KeyEvent(KeyChar(utf8_scalar(bytes)))>>
                             ELSE <<>>)
                ELSE Stop

\* the loop of Parser::parse
RECURSIVE ParseLoop(_, _)
ParseLoop(buf, events) ==
    IF buf = <<>> THEN [buffer |-> buf, events |-> events]
    ELSE LET st == ParseStep(buf)
         IN  IF st.stop THEN [buffer |-> buf, events |-> events]
             ELSE ParseLoop(consume(buf, st.n), events \o st.ev)

\* mutant: the loop body runs once, so at most one unit is decoded per call
parse_SingleTurn(buf, bytes) ==
    LET all == buf \o bytes
    IN  IF all = <<>> THEN [buffer |-> all, events |-> <<>>]
        ELSE LET st == ParseStep(all)
             IN  [buffer |-> consume(all, st.n), events |-> st.ev]

\* Parser::parse(&mut self, bytes): the new buffer and the returned events
parse(buf, bytes) == ParseLoop(buf \o bytes, <<>>)

\* mutant: only a held-back ESC counts as pending
has_pending_state_EscOnly(buf) == buf # <<>> /\ buf[1] = ESC

\* Parser::has_pending_state
has_pending_state(buf) == buf # <<>>

\* mutant: only the leading ESC is popped, the queue is not cleared
finish_incomplete_NoClear(buf) ==
    IF buf = <<>> THEN [buffer |-> buf, events |-> <<>>]
    ELSE IF buf[1] = ESC THEN [buffer |-> Tail(buf), events |-> <<KeyEvent(KeyEsc)>>]
    ELSE [buffer |-> buf, events |-> <<>>]

\* Parser::finish_incomplete: the new buffer and the returned events
finish_incomplete(buf) ==
    IF buf = <<>> THEN [buffer |-> buf, events |-> <<>>]
    ELSE [buffer |-> <<>>,
          events |-> IF buf[1] = ESC THEN <<KeyEvent(KeyEsc)>> ELSE <<>>]

\* Parser::new
ParserNew == <<>>

\* a record of one Parser call: the buffer it found and the events it returned
Call(op, pre, events) == [op |-> op, pre |-> pre, events |-> events]
NoCall == Call("none", <<>>, <<>>)

-----------------------------------------------------------------------------
(* System: the device calls Input::read makes through the Terminal *)

\* `let mut buf = [0u8; 1024]` in Input::read
BufSize == 1024

\* MockSystem::read: how many bytes one call hands over
MockReadLen(input, cap) ==
    IF input = <<>> THEN 0
    ELSE LET len == Min(BufSize, Len(input))
         IN  IF cap = {} THEN len ELSE Min(len, CHOOSE max \in cap : TRUE)

\* the results System::read may give: Err, or Ok(n) with n bytes copied
ReadOutcomes ==
    IF system = "MockSystem"
    THEN {[ok |-> TRUE, n |-> MockReadLen(input_buffer, max_read_size)]}
    ELSE {[ok |-> FALSE, n |-> 0]}
         \cup {[ok |-> TRUE, n |-> k] : k \in 0..Min(BufSize, Len(input_buffer))}

\* the results System::poll may give: Ok(true), Ok(false), Err
PollOutcomes ==
    IF system = "MockSystem"
    THEN {IF input_buffer # <<>> THEN "ready" ELSE "timeout"}
    ELSE {"ready", "timeout", "error"}

-----------------------------------------------------------------------------
(* Input::read *)

\* what a caller was handed: nothing yet, Ok, or the Err of the step `at`
Result(kind, at) == [kind |-> kind, at |-> at]
NoResult == Result("none", "")
NoSize == "0x0"

\* bookkeeping of one read cycle: the events gathered, the result of its last
\* poll ("none" before any) and how often finish_incomplete was called
Cycle(events, poll, finishes) == [events |-> events, poll |-> poll, finishes |-> finishes]
NoCycle == Cycle(<<>>, "none", 0)

InputIdle ==
    /\ system = "MockSystem"
    /\ input_buffer = <<>>
    /\ max_read_size = {}
    /\ rpc = "idle"
    /\ cyc = NoCycle
    /\ delivered = <<>>
    /\ preload = <<>>

\* no Terminal lifecycle in view
TermOff ==
    /\ tpc = "off"
    /\ original_termios = {}
    /\ log = <<>>
    /\ built_at = -1
    /\ drop_at = -1
    /\ failed = {}
    /\ sink = <<>>
    /\ logger_init = FALSE
    /\ io_err = {}
    /\ result = NoResult
    /\ held = NoSize
    /\ wsize = NoSize
    /\ todo = <<>>
    /\ batch = <<>>

\* mutant: a poll error leaves the loop without finishing the pending bytes
poll_ends_cycle_TimeoutOnly(out) == out = "timeout"

\* `Ok(false) | Err(_)`: the poll arm that calls finish_incomplete and breaks
poll_ends_cycle(out) == out \in {"timeout", "error"}

\* mutant: the bytes read inside the loop are decoded by a fresh Parser
decode_read_Fresh(buf, out, bytes) ==
    IF out.ok THEN parse(ParserNew, bytes) ELSE [buffer |-> buf, events |-> <<>>]

\* `if let Ok(n) = term.read(&mut buf) { events.extend(parse(&buf[..n])) }`
decode_read(buf, out, bytes) ==
    IF out.ok THEN parse(buf, bytes) ELSE [buffer |-> buf, events |-> <<>>]

\* the test of `while self.parser.has_pending_state()` and what follows it:
\* go on to poll, or fall out of the loop and return the events
LoopOrReturn(buf, events, poll) ==
    /\ buffer' = buf
    /\ cyc' = Cycle(events, poll, 0)
    /\ IF has_pending_state(buf)
       THEN rpc' = "poll" /\ UNCHANGED delivered
       ELSE rpc' = "idle" /\ delivered' = delivered \o events

\* the first, blocking term.read, with result `out`, and the parse of the bytes
read_first(out) ==
    /\ rpc = "idle"
    /\ IF out.ok /\ out.n > 0
       THEN LET r == parse(buffer, SubSeq(input_buffer, 1, out.n))
            IN  /\ input_buffer' = consume(input_buffer, out.n)
                /\ LoopOrReturn(r.buffer, r.events, "none")
       ELSE /\ rpc' = "idle"
            /\ cyc' = NoCycle
            /\ UNCHANGED <<buffer, input_buffer, delivered>>
    /\ UNCHANGED <<fragVars, last, system, max_read_size, preload>>

\* term.poll(50 ms) inside the loop, with result `out`
read_poll(out) ==
    /\ rpc = "poll"
    /\ IF poll_ends_cycle(out)
       THEN LET f == finish_incomplete(buffer)
            IN  /\ buffer' = f.buffer
                /\ cyc' = Cycle(cyc.events \o f.events, out, cyc.finishes + 1)
                /\ delivered' = delivered \o cyc.events \o f.events
                /\ rpc' = "idle"
       ELSE /\ rpc' = "read"
            /\ cyc' = Cycle(cyc.events, out, cyc.finishes)
            /\ UNCHANGED <<buffer, delivered>>
    /\ UNCHANGED <<fragVars, last, sysVars, preload>>

\* term.read after a poll that reported data, with result `out`, and the parse
read_again(out) ==
    /\ rpc = "read"
    /\ LET r == decode_read(buffer, out, SubSeq(input_buffer, 1, out.n))
       IN  /\ input_buffer' = consume(input_buffer, out.n)
           /\ LoopOrReturn(r.buffer, cyc.events \o r.events, cyc.poll)
    /\ UNCHANGED <<fragVars, last, system, max_read_size, preload>>

\* what one Input::read returns when a single device read hands over all of s
UncappedRead(s) ==
    LET r == parse(ParserNew, s)
    IN  r.events \o (IF has_pending_state(r.buffer)
                     THEN finish_incomplete(r.buffer).events
                     ELSE <<>>)

-----------------------------------------------------------------------------
(* Terminal: construction, the calls of run_app, destruction *)

\* one entry of the call log
SysCall(call, arg) == [call |-> call, arg |-> arg]
Write(arg) == SysCall("write", arg)

HIDE_CURSOR == "ESC[?25l"
SHOW_CURSOR == "ESC[?25h"
MOUSE_ON == "ESC[?1000h"
MOUSE_OFF == "ESC[?1000l"
ALT_ON == "ESC[?1049h"
ALT_OFF == "ESC[?1049l"
CLEAR == "ESC[2J"
TERMIOS == "termios"

\* the System call each step of new_with_system and of drop makes
StepCall(step) ==
    CASE step = "new.open" -> SysCall("open_tty", "")
      [] step = "new.raw" -> SysCall("enable_raw", "")
      [] step = "new.hide" -> Write(HIDE_CURSOR)
      [] step = "new.mouse" -> Write(MOUSE_ON)
      [] step = "new.alt" -> Write(ALT_ON)
      [] step = "drop.mouse" -> Write(MOUSE_OFF)
      [] step = "drop.alt" -> Write(ALT_OFF)
      [] step = "drop.cursor" -> Write(SHOW_CURSOR)
      [] step = "drop.raw" -> SysCall("disable_raw", TERMIOS)
      [] OTHER -> SysCall("close_tty", "")

\* mutant: mouse reporting is switched on before the cursor is hidden
new_next_MouseFirst(step, ok) ==
    IF ~ok THEN (IF step = "new.open" THEN "done" ELSE "drop.mouse")
    ELSE CASE step = "new.open" -> "new.raw"
           [] step = "new.raw" -> "new.mouse"
           [] step = "new.mouse" -> "new.hide"
           [] step = "new.hide" -> "new.alt"
           [] OTHER -> "app.init"

\* mutant: the error of enable_raw is not returned, construction goes on
new_next_IgnoreRawError(step, ok) ==
    IF ~ok /\ step # "new.raw" THEN (IF step = "new.open" THEN "done" ELSE "drop.mouse")
    ELSE CASE step = "new.open" -> "new.raw"
           [] step = "new.raw" -> "new.hide"
           [] step = "new.hide" -> "new.mouse"
           [] step = "new.mouse" -> "new.alt"
           [] OTHER -> "app.init"

\* where new_with_system goes after `step` returned Ok (ok) or Err: `?` returns
\* the error; before the struct is built nothing is dropped, after it `term` is
new_next(step, ok) ==
    IF ~ok THEN (IF step = "new.open" THEN "done" ELSE "drop.mouse")
    ELSE CASE step = "new.open" -> "new.raw"
           [] step = "new.raw" -> "new.hide"
           [] step = "new.hide" -> "new.mouse"
           [] step = "new.mouse" -> "new.alt"
           [] OTHER -> "app.init"

\* mutant: drop returns right after a failed disable_raw, the device stays open
drop_next_ReturnAfterLog(step, termios, ok) ==
    CASE step = "drop.mouse" -> "drop.alt"
      [] step = "drop.alt" -> "drop.cursor"
      [] step = "drop.cursor" -> IF termios # {} THEN "drop.raw" ELSE "drop.close"
      [] step = "drop.raw" -> IF ok THEN "drop.close" ELSE "done"
      [] OTHER -> "done"

\* mutant: a failed write ends the teardown (`?` instead of `let _ =`)
drop_next_StopOnError(step, termios, ok) ==
    IF ~ok /\ step \in {"drop.mouse", "drop.alt", "drop.cursor"} THEN "done"
    ELSE CASE step = "drop.mouse" -> "drop.alt"
           [] step = "drop.alt" -> "drop.cursor"
           [] step = "drop.cursor" -> IF termios # {} THEN "drop.raw" ELSE "drop.close"
           [] step = "drop.raw" -> "drop.close"
           [] OTHER -> "done"

\* where Drop for Terminal goes after `step`, whatever its result was
drop_next(step, termios, ok) ==
    CASE step = "drop.mouse" -> "drop.alt"
      [] step = "drop.alt" -> "drop.cursor"
      [] step = "drop.cursor" -> IF termios # {} THEN "drop.raw" ELSE "drop.close"
      [] step = "drop.raw" -> "drop.close"
      [] OTHER -> "done"

\* which failing teardown steps reach log!: only the disable_raw of Drop
logs_failure(step) == step = "drop.raw"

\* logger::write_log: a record is written only once logger::init() has run
write_log(records, init, msg) == IF init THEN Append(records, msg) ELSE records

\* the window sizes the device may report
Sizes == {"80x24", "120x40"}

\* the three writes Renderer::render makes for one Change
CellWrites == <<"cursor", "style", "symbol">>

RECURSIVE Repeat(_, _)
Repeat(s, k) == IF k = 0 THEN <<>> ELSE s \o Repeat(s, k - 1)

\* the writes of Renderer::render for a frame of size `next` that changes k cells
RenderWrites(cur, next, k) ==
    (IF next # cur THEN <<CLEAR>> ELSE <<>>) \o Repeat(CellWrites, k)

\* one step of Terminal::new_with_system: the call of `step`, with result ok
NewStep(step, ok) ==
    /\ tpc = step
    /\ log' = Append(log, StepCall(step))
    /\ tpc' = new_next(step, ok)
    /\ original_termios' = IF step = "new.raw" /\ ok THEN {TERMIOS} ELSE original_termios
    /\ result' = IF ok THEN result ELSE Result("err", step)
    /\ built_at' = IF tpc' = "app.init" THEN Len(log') ELSE built_at
    /\ drop_at' = IF tpc' = "drop.mouse" THEN Len(log') ELSE drop_at
    /\ UNCHANGED <<failed, sink, logger_init, io_err, held, wsize, todo, batch>>
    /\ UNCHANGED <<buffer, fragVars, last, sysVars, readVars, renderVars, layoutVars, frameVars, styleVars>>

\* run_app returns `res`: the Terminal it owns is dropped
AppReturn(res, calls) ==
    /\ result' = res
    /\ tpc' = "drop.mouse"
    /\ drop_at' = calls

\* mutant: the window size is queried before init's command is looked at
AppInit_SizeFirst(cmd) ==
    /\ tpc = "app.init"
    /\ log' = Append(log, SysCall("get_window_size", ""))
    /\ IF cmd = "Quit"
       THEN AppReturn(Result("ok", "init"), Len(log) + 1)
       ELSE tpc' = "app.clear" /\ UNCHANGED <<result, drop_at>>
    /\ UNCHANGED <<original_termios, built_at, failed, sink, logger_init, io_err,
                   held, wsize, todo, batch>>
    /\ UNCHANGED <<buffer, fragVars, last, sysVars, readVars, renderVars, layoutVars, frameVars, styleVars>>

\* app.init()
AppInit(cmd) ==
    /\ tpc = "app.init"
    /\ IF cmd = "Quit"
       THEN AppReturn(Result("ok", "init"), Len(log))
       ELSE tpc' = "app.size" /\ UNCHANGED <<result, drop_at>>
    /\ UNCHANGED <<original_termios, log, built_at, failed, sink, logger_init, io_err,
                   held, wsize, todo, batch>>
    /\ UNCHANGED <<buffer, fragVars, last, sysVars, readVars, renderVars, layoutVars, frameVars, styleVars>>

\* terminal.size()? and Renderer::new(width, height)
AppSize(ok, size) ==
    /\ tpc = "app.size"
    /\ log' = Append(log, SysCall("get_window_size", ""))
    /\ IF ok
       THEN held' = size /\ tpc' = "app.clear" /\ UNCHANGED <<result, drop_at>>
       ELSE AppReturn(Result("err", "get_window_size"), Len(log) + 1) /\ UNCHANGED held
    /\ UNCHANGED <<original_termios, built_at, failed, sink, logger_init, io_err, wsize, todo, batch>>
    /\ UNCHANGED <<buffer, fragVars, last, sysVars, readVars, renderVars, layoutVars, frameVars, styleVars>>

\* terminal.write(b"\x1b[2J")?, the initial screen clear
AppClear(ok) ==
    /\ tpc = "app.clear"
    /\ log' = Append(log, Write(CLEAR))
    /\ IF ok
       THEN tpc' = "loop.size" /\ UNCHANGED <<result, drop_at>>
       ELSE AppReturn(Result("err", "write"), Len(log) + 1)
    /\ UNCHANGED <<original_termios, built_at, failed, sink, logger_init, io_err,
                   held, wsize, todo, batch>>
    /\ UNCHANGED <<buffer, fragVars, last, sysVars, readVars, renderVars, layoutVars, frameVars, styleVars>>

\* once no write of the render is left: current_buffer = next.clone(), go read
AfterRender(left, next) ==
    /\ todo' = left
    /\ IF left = <<>>
       THEN held' = next /\ tpc' = "loop.input"
       ELSE tpc' = "loop.render" /\ UNCHANGED held

\* top of the loop: terminal.size()?, a fresh Buffer, app.draw, and the diff
\* of renderer.render (k cells changed)
LoopSize(ok, size, k) ==
    /\ tpc = "loop.size"
    /\ Len(log) < MaxCalls
    /\ log' = Append(log, SysCall("get_window_size", ""))
    /\ IF ok
       THEN /\ wsize' = size
            /\ AfterRender(RenderWrites(held, size, k), size)
            /\ UNCHANGED <<result, drop_at>>
       ELSE /\ AppReturn(Result("err", "get_window_size"), Len(log) + 1)
            /\ UNCHANGED <<wsize, todo, held>>
    /\ UNCHANGED <<original_termios, built_at, failed, sink, logger_init, io_err, batch>>
    /\ UNCHANGED <<buffer, fragVars, last, sysVars, readVars, renderVars, layoutVars, frameVars, styleVars>>

\* one terminal.write(..)? of renderer.render
LoopRender(ok) ==
    /\ tpc = "loop.render"
    /\ Len(log) < MaxCalls
    /\ log' = Append(log, Write(Head(todo)))
    /\ IF ok
       THEN AfterRender(Tail(todo), wsize) /\ UNCHANGED <<result, drop_at>>
       ELSE AppReturn(Result("err", "write"), Len(log) + 1) /\ UNCHANGED <<todo, held>>
    /\ UNCHANGED <<original_termios, built_at, failed, sink, logger_init, io_err, wsize, batch>>
    /\ UNCHANGED <<buffer, fragVars, last, sysVars, readVars, renderVars, layoutVars, frameVars, styleVars>>

\* one device call of input.read(&terminal); when the cycle returns, its
\* events are the batch to dispatch
LoopInput ==
    /\ tpc = "loop.input"
    /\ Len(log) < MaxCalls
    /\ \/ \E out \in ReadOutcomes :
            /\ read_first(out) \/ read_again(out)
            /\ log' = Append(log, SysCall("read", ""))
            /\ io_err' = IF out.ok THEN io_err ELSE io_err \cup {"read"}
       \/ \E out \in PollOutcomes :
            /\ read_poll(out)
            /\ log' = Append(log, SysCall("poll", ""))
            /\ io_err' = IF out = "error" THEN io_err \cup {"poll"} ELSE io_err
    /\ tpc' = IF rpc' = "idle" THEN "loop.dispatch" ELSE "loop.input"
    /\ batch' = IF rpc' = "idle" THEN cyc'.events ELSE batch
    /\ UNCHANGED <<original_termios, built_at, drop_at, failed, sink, logger_init,
                   result, held, wsize, todo>>
    /\ UNCHANGED <<renderVars, layoutVars, frameVars, styleVars>>

\* mutant: Quit is acted on only after the whole batch has been dispatched
LoopDispatch_FinishBatch(act) ==
    /\ tpc = "loop.dispatch"
    /\ batch # <<>>
    /\ IF act = "quit"
       THEN AppReturn(Result("ok", "update"), Len(log)) /\ batch' = <<>>
       ELSE batch' = Tail(batch) /\ UNCHANGED <<tpc, result, drop_at>>
    /\ UNCHANGED <<original_termios, log, built_at, failed, sink, logger_init, io_err,
                   held, wsize, todo>>
    /\ UNCHANGED <<buffer, fragVars, last, sysVars, readVars, renderVars, layoutVars, frameVars, styleVars>>

\* `for event in events`: app.on_event(event), and app.update(msg) if it gave
\* an action; act is "ignore" (no action), "none" or "quit" (update's Command)
LoopDispatch(act) ==
    /\ tpc = "loop.dispatch"
    /\ batch # <<>>
    /\ IF act = "quit"
       THEN AppReturn(Result("ok", "update"), Len(log)) /\ UNCHANGED batch
       ELSE batch' = Tail(batch) /\ UNCHANGED <<tpc, result, drop_at>>
    /\ UNCHANGED <<original_termios, log, built_at, failed, sink, logger_init, io_err,
                   held, wsize, todo>>
    /\ UNCHANGED <<buffer, fragVars, last, sysVars, readVars, renderVars, layoutVars, frameVars, styleVars>>

\* mutant: a batch without events (no data, end of input) ends the loop
LoopSleep_ReturnOnEmpty ==
    /\ tpc = "loop.dispatch"
    /\ batch = <<>>
    /\ IF cyc.events = <<>>
       THEN AppReturn(Result("ok", "eof"), Len(log))
       ELSE tpc' = "loop.size" /\ UNCHANGED <<result, drop_at>>
    /\ UNCHANGED <<original_termios, log, built_at, failed, sink, logger_init, io_err,
                   held, wsize, todo, batch>>
    /\ UNCHANGED <<buffer, fragVars, last, sysVars, readVars, renderVars, layoutVars, frameVars, styleVars>>

\* thread::sleep(16 ms) at the end of the loop body
LoopSleep ==
    /\ tpc = "loop.dispatch"
    /\ batch = <<>>
    /\ tpc' = "loop.size"
    /\ UNCHANGED <<original_termios, log, built_at, drop_at, failed, sink, logger_init, io_err,
                   result, held, wsize, todo, batch>>
    /\ UNCHANGED <<buffer, fragVars, last, sysVars, readVars, renderVars, layoutVars, frameVars, styleVars>>

\* one step of Drop for Terminal: the call of `step`, with result ok
DropStep(step, ok) ==
    /\ tpc = step
    /\ log' = Append(log, StepCall(step))
    /\ failed' = IF ok THEN failed ELSE failed \cup {step}
    /\ sink' = IF ~ok /\ logs_failure(step)
               THEN write_log(sink, logger_init, step)
               ELSE sink
    /\ tpc' = drop_next(step, original_termios, ok)
    /\ UNCHANGED <<original_termios, built_at, drop_at, logger_init, io_err, result,
                   held, wsize, todo, batch>>
    /\ UNCHANGED <<buffer, fragVars, last, sysVars, readVars, renderVars, layoutVars, frameVars, styleVars>>

NewSteps == {"new.open", "new.raw", "new.hide", "new.mouse", "new.alt"}
DropSteps == {"drop.mouse", "drop.alt", "drop.cursor", "drop.raw", "drop.close"}

-----------------------------------------------------------------------------
(* Buffer (src/buffer.rs) *)

\* u16: the type of width, height, x, y and of the arithmetic on them
U16 == 65536

\* the result of a u16 operation whose exact value is n: exact if it fits;
\* else a panic where overflow checks are on, the wrapped value where not
CheckedU16(n, prof) ==
    IF n < U16 THEN [panic |-> FALSE, val |-> n]
    ELSE IF prof = "debug" THEN [panic |-> TRUE, val |-> 0]
    ELSE [panic |-> FALSE, val |-> n % U16]

\* Style: only the foreground is set by the calls in view; "None" is Option::None
Style(foreground) == [foreground |-> foreground]

\* Style::default()
StyleDefault == Style("None")

\* a Cell with its style
StyledCell(symbol, style) == [symbol |-> symbol, style |-> style]

\* Color::to_ansi_fg of the colors in view
to_ansi_fg(color) ==
    CASE color = "Red" -> "31"
      [] color = "Blue" -> "34"
      [] OTHER -> "39"

\* Style::to_ansi: ESC [ codes m, the codes joined by ';': always 0 (reset),
\* then the foreground's code if there is a foreground
to_ansi(style) ==
    [intro |-> "ESC[",
     codes |-> <<"0">> \o (IF style.foreground # "None"
                           THEN <<to_ansi_fg(style.foreground)>> ELSE <<>>),
     final |-> "m"]

\* char::encode_utf8 of the symbols in view, as bytes
encode_utf8(symbol) ==
    CASE symbol = " " -> <<32>>
      [] symbol = "X" -> <<88>>
      [] symbol = "é" -> <<195, 169>>
      [] OTHER -> <<239, 191, 189>>

\* a Cell that was given no style: its style is the default one
Cell(symbol) == StyledCell(symbol, StyleDefault)

\* Cell::default()
DefaultCell == Cell(" ")

Change(x, y, cell) == [x |-> x, y |-> y, cell |-> cell]

MakeBuffer(width, height, content) ==
    [width |-> width, height |-> height, content |-> content]

\* the place of next before the first frame
NoBuffer == MakeBuffer(0, 0, <<>>)

\* Buffer::new: vec![Cell::default(); (width * height) as usize]
BufferNew(width, height, prof) ==
    LET m == CheckedU16(width * height, prof)
    IN  [panic |-> m.panic,
         buf |-> MakeBuffer(width, height, [i \in 1..m.val |-> DefaultCell])]

\* mutant: the index is computed column-major
index_ColumnMajor(b, x, y, prof) ==
    LET m == CheckedU16(x * b.height, prof)
    IN  IF m.panic THEN m ELSE CheckedU16(m.val + y, prof)

\* Buffer::index: ((y * self.width) + x) as usize
index(b, x, y, prof) ==
    LET m == CheckedU16(y * b.width, prof)
    IN  IF m.panic THEN m ELSE CheckedU16(m.val + x, prof)

\* Buffer::set: nothing out of bounds; else content[idx].symbol = symbol, a
\* panic if idx is not an index of content
BufferSet(b, x, y, symbol, prof) ==
    IF x >= b.width \/ y >= b.height THEN [panic |-> FALSE, buf |-> b]
    ELSE LET idx == index(b, x, y, prof)
         IN  IF idx.panic \/ idx.val >= Len(b.content)
             THEN [panic |-> TRUE, buf |-> b]
             ELSE [panic |-> FALSE,
                   buf |-> [b EXCEPT !.content[idx.val + 1].symbol = symbol]]

\* Buffer::get: a panic out of bounds or where content has no such cell
BufferGet(b, x, y, prof) ==
    IF x >= b.width \/ y >= b.height THEN [panic |-> TRUE, cell |-> DefaultCell]
    ELSE LET idx == index(b, x, y, prof)
         IN  IF idx.panic \/ idx.val >= Len(b.content)
             THEN [panic |-> TRUE, cell |-> DefaultCell]
             ELSE [panic |-> FALSE, cell |-> b.content[idx.val + 1]]

\* the Change diff makes for the cell at (0-based) position i
ChangeAt(b, i) ==
    Change((i % U16) % b.width, (i % U16) \div b.width, b.content[i + 1])

\* mutant: a mismatch of the heights alone is not seen
SameSize_WidthOnly(a, other) == a.width = other.width

\* the test of Buffer::diff: both dimensions agree
SameSize(a, other) == a.width = other.width /\ a.height = other.height

\* mutant: the comparison of the cells is left out
DiffScan_NoCompare(a, other, lo, hi) ==
    [i \in 1..(hi - lo) |-> ChangeAt(a, lo + i - 1)]

\* the loop of Buffer::diff over the zipped cells, for the positions lo..hi-1
\* in order (halved, so that long buffers do not nest deeply)
RECURSIVE DiffScan(_, _, _, _)
DiffScan(a, other, lo, hi) ==
    IF lo >= hi THEN <<>>
    ELSE IF hi = lo + 1
    THEN (IF a.content[lo + 1] # other.content[lo + 1] THEN <<ChangeAt(a, lo)>> ELSE <<>>)
    ELSE LET mid == (lo + hi) \div 2
         IN  DiffScan(a, other, lo, mid) \o DiffScan(a, other, mid, hi)

\* Buffer::diff
diff(a, other) ==
    IF ~SameSize(a, other)
    THEN [i \in 1..Len(a.content) |-> ChangeAt(a, i - 1)]
    ELSE DiffScan(a, other, 0, Min(Len(a.content), Len(other.content)))

-----------------------------------------------------------------------------
(* Renderer (src/renderer.rs) *)

\* one terminal.write of the renderer
ClearWrite == [kind |-> "clear", row |-> 0, col |-> 0, symbol |-> ""]
\* mutant: the column is sent before the row
CursorWrite_ColumnFirst(change) ==
    [kind |-> "cursor", row |-> change.x + 1, col |-> change.y + 1, symbol |-> ""]

\* format!("\x1b[{};{}H", change.y + 1, change.x + 1)
CursorWrite(change) ==
    [kind |-> "cursor", row |-> change.y + 1, col |-> change.x + 1, symbol |-> ""]
StyleWrite(change) ==
    [kind |-> "style", row |-> 0, col |-> 0, symbol |-> to_ansi(change.cell.style)]
SymbolWrite(change) ==
    [kind |-> "symbol", row |-> 0, col |-> 0, symbol |-> encode_utf8(change.cell.symbol)]

\* the three writes of `for change in diff`, for all changes in order
ChangeWrites(changes) ==
    [j \in 1..(3 * Len(changes)) |->
        LET change == changes[((j - 1) \div 3) + 1]
        IN  CASE (j - 1) % 3 = 0 -> CursorWrite(change)
              [] (j - 1) % 3 = 1 -> StyleWrite(change)
              [] OTHER -> SymbolWrite(change)]

\* mutant: the screen is not cleared when the size changes
RenderPlan_NoClear(old, new) == ChangeWrites(diff(new, old))

\* all the writes Renderer::render attempts if none fails
RenderPlan(old, new) ==
    (IF ~SameSize(new, old) THEN <<ClearWrite>> ELSE <<>>)
    \o ChangeWrites(diff(new, old))

\* mutant: next is kept although a write failed
held_after_Always(old, new, ok) == new

\* mutant: the rendered frame is not kept
held_after_Stale(old, new, ok) == old

\* current_buffer after render: next_buffer.clone() once every write succeeded
held_after(old, new, ok) ==
    IF ok THEN new ELSE old

NoSet == [op |-> "none", x |-> 0, y |-> 0, symbol |-> "", pre |-> NoBuffer]

\* no Buffer or Renderer in view
RenderOff ==
    /\ profile = "debug"
    /\ panicked = "none"
    /\ current_buffer = NoBuffer
    /\ next_buffer = NoBuffer
    /\ phase = "off"
    /\ writes = <<>>
    /\ rres = "none"
    /\ rprev = NoBuffer
    /\ last_ok = {}
    /\ again = FALSE
    /\ bop = NoSet

\* top of the loop body: `let mut new = Buffer::new(w, h)`
NewFrame(w, h) ==
    /\ phase \in {"start", "rendered"}
    /\ panicked = "none"
    /\ LET r == BufferNew(w, h, profile)
       IN  /\ panicked' = IF r.panic THEN "overflow" ELSE "none"
           /\ next_buffer' = IF r.panic THEN next_buffer ELSE r.buf
           /\ phase' = IF r.panic THEN phase ELSE "draw"
    /\ writes' = <<>>
    /\ rres' = "none"
    /\ again' = FALSE
    /\ rprev' = NoBuffer
    /\ UNCHANGED <<profile, current_buffer, last_ok, bop>>
    /\ UNCHANGED <<buffer, fragVars, last, sysVars, readVars, termVars, layoutVars, frameVars, styleVars>>

\* app.draw: one Buffer::set on the frame's buffer
Draw(x, y, symbol) ==
    /\ phase = "draw"
    /\ panicked = "none"
    /\ LET r == BufferSet(next_buffer, x, y, symbol, profile)
       IN  /\ panicked' = IF r.panic THEN "index" ELSE "none"
           /\ next_buffer' = r.buf
    /\ UNCHANGED <<profile, current_buffer, phase, writes, rres, rprev, last_ok, again, bop>>
    /\ UNCHANGED <<buffer, fragVars, last, sysVars, readVars, termVars, layoutVars, frameVars, styleVars>>

\* `let mut buf = Buffer::new(width, height)`: a Buffer of its own
NewBuffer(width, height) ==
    /\ phase = "nobuf"
    /\ panicked = "none"
    /\ LET r == BufferNew(width, height, profile)
       IN  /\ panicked' = IF r.panic THEN "overflow" ELSE "none"
           /\ next_buffer' = IF r.panic THEN next_buffer ELSE r.buf
           /\ phase' = IF r.panic THEN phase ELSE "buf"
    /\ UNCHANGED <<profile, current_buffer, writes, rres, rprev, last_ok, again, bop>>
    /\ UNCHANGED <<buffer, fragVars, last, sysVars, readVars, termVars, layoutVars, frameVars, styleVars>>

\* buf.set(x, y, symbol) on a Buffer of its own, the call and the buffer it
\* found kept for inspection
SetCell(x, y, symbol) ==
    /\ phase = "buf"
    /\ panicked = "none"
    /\ LET r == BufferSet(next_buffer, x, y, symbol, profile)
       IN  /\ panicked' = IF r.panic THEN "index" ELSE "none"
           /\ next_buffer' = r.buf
    /\ bop' = [op |-> "set", x |-> x, y |-> y, symbol |-> symbol, pre |-> next_buffer]
    /\ UNCHANGED <<profile, current_buffer, phase, writes, rres, rprev, last_ok, again>>
    /\ UNCHANGED <<buffer, fragVars, last, sysVars, readVars, termVars, layoutVars, frameVars, styleVars>>

\* renderer.render(&terminal, &new); the first `done` writes succeed,
\* the one after them, if there is one, fails and `?` returns its error
Render(done) ==
    /\ phase = "draw"
    /\ panicked = "none"
    /\ LET plan == RenderPlan(current_buffer, next_buffer)
           ok == done = Len(plan)
       IN  /\ done <= Len(plan)
           /\ writes' = SubSeq(plan, 1, Min(done + 1, Len(plan)))
           /\ rres' = IF ok THEN "ok" ELSE "err"
           /\ current_buffer' = held_after(current_buffer, next_buffer, ok)
           /\ last_ok' = IF ok THEN {next_buffer} ELSE {}
    /\ rprev' = current_buffer
    /\ again' = (last_ok = {next_buffer})
    /\ phase' = "rendered"
    /\ UNCHANGED <<profile, panicked, next_buffer, bop>>
    /\ UNCHANGED <<buffer, fragVars, last, sysVars, readVars, termVars, layoutVars, frameVars, styleVars>>

-----------------------------------------------------------------------------
(* Layout (src/layout.rs) *)

\* enum Constraint; a and b are the payload (b is the denominator of Ratio)
Constraint(kind, a, b) == [kind |-> kind, a |-> a, b |-> b]
Fill == Constraint("Fill", 0, 0)
Percentage(p) == Constraint("Percentage", p, 0)
Length(l) == Constraint("Length", l, 0)
Ratio(n, d) == Constraint("Ratio", n, d)
ConstraintMin(n) == Constraint("Min", n, 0)
ConstraintMax(n) == Constraint("Max", n, 0)

\* Rect::new
RectNew(x, y, width, height) == [x |-> x, y |-> y, width |-> width, height |-> height]

\* Layout::new
LayoutNew(direction, constraints) == [direction |-> direction, constraints |-> constraints]

\* the arms `Fill | Min(_) | Max(_)` of the first pass
IsFlex(c) == c.kind \in {"Fill", "Min", "Max"}

\* the size of a Length, Percentage or Ratio constraint, as both passes compute
\* it: l; (p * total_space) / 100 in u16; (total_space as u32 * n / d) as u16.
\* The u32 product is exact for the numerators in view (below 2^15), which is
\* as far as the integers of the model checker reach; a zero d is a panic.
fixed_size(c, total_space, prof) ==
    IF c.kind = "Length" THEN [panic |-> FALSE, val |-> c.a]
    ELSE IF c.kind = "Percentage" THEN
        LET m == CheckedU16(c.a * total_space, prof)
        IN  [panic |-> m.panic, val |-> m.val \div 100]
    ELSE
        IF c.b = 0 THEN [panic |-> TRUE, val |-> 0]
        ELSE [panic |-> FALSE, val |-> ((total_space * c.a) \div c.b) % U16]

\* step 1 of split: the loop that accumulates used_space and flex_count
RECURSIVE first_pass(_, _, _, _, _)
first_pass(cs, total_space, used_space, flex_count, prof) ==
    IF cs = <<>> THEN [panic |-> FALSE, used_space |-> used_space, flex_count |-> flex_count]
    ELSE IF IsFlex(Head(cs))
    THEN first_pass(Tail(cs), total_space, used_space, flex_count + 1, prof)
    ELSE LET s == fixed_size(Head(cs), total_space, prof)
             u == CheckedU16(used_space + s.val, prof)
         IN  IF s.panic \/ u.panic
             THEN [panic |-> TRUE, used_space |-> 0, flex_count |-> 0]
             ELSE first_pass(Tail(cs), total_space, u.val, flex_count, prof)

\* step 2 of split: total_space.saturating_sub(used_space) / flex_count, or 0
flex_size_of(total_space, used_space, flex_count) ==
    IF flex_count > 0 THEN SatSub(total_space, used_space) \div flex_count ELSE 0

\* the `let size = match c` of the second pass
size_of(c, total_space, flex_size, prof) ==
    IF c.kind = "Fill" THEN [panic |-> FALSE, val |-> flex_size]
    ELSE IF c.kind = "Min" THEN [panic |-> FALSE, val |-> Max(flex_size, c.a)]
    ELSE IF c.kind = "Max" THEN [panic |-> FALSE, val |-> Min(flex_size, c.a)]
    ELSE fixed_size(c, total_space, prof)

\* step 3 of split: the loop that pushes one sub-rect per constraint
RECURSIVE second_pass(_, _, _, _, _, _, _, _)
second_pass(cs, direction, rect, total_space, flex_size, offset, rects, prof) ==
    IF cs = <<>> THEN [panic |-> FALSE, rects |-> rects]
    ELSE LET size == size_of(Head(cs), total_space, flex_size, prof)
             start == CheckedU16((IF direction = "Horizontal" THEN rect.x ELSE rect.y)
                                 + offset, prof)
             sub_rect == IF direction = "Horizontal"
                         THEN RectNew(start.val, rect.y, size.val, rect.height)
                         ELSE RectNew(rect.x, start.val, rect.width, size.val)
             next_offset == CheckedU16(offset + size.val, prof)
         IN  IF size.panic \/ start.panic \/ next_offset.panic
             THEN [panic |-> TRUE, rects |-> <<>>]
             ELSE second_pass(Tail(cs), direction, rect, total_space, flex_size,
                              next_offset.val, Append(rects, sub_rect), prof)

\* Layout::split: a panic, or the Vec<Rect> returned
split(layout, rect, prof) ==
    LET total_space == IF layout.direction = "Horizontal" THEN rect.width ELSE rect.height
        p1 == first_pass(layout.constraints, total_space, 0, 0, prof)
    IN  IF p1.panic THEN [panic |-> TRUE, rects |-> <<>>]
        ELSE second_pass(layout.constraints, layout.direction, rect, total_space,
                         flex_size_of(total_space, p1.used_space, p1.flex_count),
                         0, <<>>, prof)

\* a record of one split call: its arguments and what it returned
SplitCall(done, layout, rect, out) == [done |-> done, layout |-> layout, rect |-> rect, out |-> out]
NoSplit == SplitCall(FALSE, LayoutNew("Horizontal", <<>>), RectNew(0, 0, 0, 0),
                     [panic |-> FALSE, rects |-> <<>>])

\* no Layout in view
LayoutOff == split_call = NoSplit

\* layout.split(rect), with layout = Layout::new(direction, constraints)
Split(direction, constraints, rect) ==
    /\ ~split_call.done
    /\ LET layout == LayoutNew(direction, constraints)
       IN  split_call' = SplitCall(TRUE, layout, rect, split(layout, rect, profile))
    /\ UNCHANGED <<buffer, fragVars, last, sysVars, readVars, termVars, renderVars, frameVars, styleVars>>

-----------------------------------------------------------------------------
(* Style (src/style.rs), styled cells, Frame (src/frame.rs) *)

\* Buffer::new with styled cells
StyledBufferNew(width, height, prof) ==
    LET m == CheckedU16(width * height, prof)
    IN  [panic |-> m.panic,
         buf |-> MakeBuffer(width, height, [i \in 1..m.val |-> StyledCell(" ", StyleDefault)])]

\* Buffer::set_with_style: nothing out of bounds; else the cell becomes
\* {symbol, style}
set_with_style(b, x, y, symbol, style, prof) ==
    IF x >= b.width \/ y >= b.height THEN [panic |-> FALSE, buf |-> b]
    ELSE LET idx == index(b, x, y, prof)
         IN  IF idx.panic \/ idx.val >= Len(b.content)
             THEN [panic |-> TRUE, buf |-> b]
             ELSE [panic |-> FALSE,
                   buf |-> [b EXCEPT !.content[idx.val + 1] = StyledCell(symbol, style)]]

\* struct Frame, with the old_style local of every with_style call in
\* progress (innermost last) and whether a panic ended the program; parents
\* holds, for every render_area call in progress, the Frame it was called on
\* (its area, current_style and old_style locals), innermost last: the record
\* is then the sub_frame handed to the closure
FrameState(buf, area, current_style, saved, dead) ==
    [buffer |-> buf, area |-> area, current_style |-> current_style,
     saved |-> saved, dead |-> dead, parents |-> <<>>]
NoFrame == FrameState(NoBuffer, RectNew(0, 0, 0, 0), StyleDefault, <<>>, FALSE)

\* Frame::new
FrameNew(buf, area) == FrameState(buf, area, StyleDefault, <<>>, FALSE)

\* a record of one Frame call: its arguments, the current style and the buffer
\* it found, whether it panicked; outer holds, for every with_style call in
\* progress, the style in force when it was called; after_exit is {s} when the
\* call directly follows the return of a with_style that was called under s;
\* count is the number of calls made so far
FrameCall(op, x, y, text, style, before, pre, panic, outer, after_exit, count) ==
    [op |-> op, x |-> x, y |-> y, text |-> text, style |-> style, before |-> before,
     pre |-> pre, panic |-> panic, outer |-> outer, after_exit |-> after_exit,
     count |-> count]
NoFrameCall ==
    FrameCall("none", 0, 0, <<>>, StyleDefault, StyleDefault, NoBuffer, FALSE, <<>>, {}, 0)

\* no Frame in view
FrameOff == frame = NoFrame /\ frame_call = NoFrameCall

\* the loop of write_str from the i-th character (0-based) on:
\* set_with_style(self.area.x + x + (i as u16), self.area.y + y, c, current_style)
RECURSIVE write_from(_, _, _, _, _, _)
write_from(f, x, y, text, i, prof) ==
    IF i >= Len(text) THEN [panic |-> FALSE, buf |-> f.buffer]
    ELSE LET ax == CheckedU16(f.area.x + x, prof)
             cx == CheckedU16(ax.val + (i % U16), prof)
             cy == CheckedU16(f.area.y + y, prof)
         IN  IF ax.panic \/ cx.panic \/ cy.panic THEN [panic |-> TRUE, buf |-> f.buffer]
             ELSE LET r == set_with_style(f.buffer, cx.val, cy.val, text[i + 1],
                                          f.current_style, prof)
                  IN  IF r.panic THEN r
                      ELSE write_from([f EXCEPT !.buffer = r.buf], x, y, text, i + 1, prof)

\* Frame::write_str
write_str(f, x, y, text, prof) == write_from(f, x, y, text, 0, prof)

\* Frame::set_style
set_style(f, style) == [f EXCEPT !.current_style = style]

\* Frame::reset_style
reset_style(f) == [f EXCEPT !.current_style = StyleDefault]

\* Frame::with_style up to the call of f: old_style saved, the style swapped in
with_style_enter(f, style) ==
    [f EXCEPT !.saved = Append(@, f.current_style), !.current_style = style]

\* mutant: the style is not put back when the body returns
with_style_exit_NoRestore(f) ==
    [f EXCEPT !.saved = SubSeq(@, 1, Len(@) - 1)]

\* Frame::with_style after f returned: self.current_style = old_style
with_style_exit(f) ==
    [f EXCEPT !.current_style = f.saved[Len(f.saved)],
              !.saved = SubSeq(@, 1, Len(@) - 1)]

\* Frame::render_area up to the call of f: sub_frame shares the buffer, copies
\* current_style and takes the given area as it is
render_area_enter(f, area) ==
    [f EXCEPT !.parents = Append(@, [area |-> f.area, current_style |-> f.current_style,
                                    saved |-> f.saved]),
              !.area = area,
              !.saved = <<>>]

\* Frame::render_area after f returned: sub_frame is dropped, self is as it
\* was but for the shared buffer
render_area_exit(f) ==
    LET self == f.parents[Len(f.parents)]
    IN  [f EXCEPT !.area = self.area,
                  !.current_style = self.current_style,
                  !.saved = self.saved,
                  !.parents = SubSeq(@, 1, Len(@) - 1)]

\* app.draw: one Buffer::set_with_style on the frame's buffer
DrawStyled(x, y, symbol, style) ==
    /\ phase = "draw"
    /\ panicked = "none"
    /\ LET r == set_with_style(next_buffer, x, y, symbol, style, profile)
       IN  /\ panicked' = IF r.panic THEN "index" ELSE "none"
           /\ next_buffer' = r.buf
    /\ UNCHANGED <<profile, current_buffer, phase, writes, rres, rprev, last_ok, again, bop>>
    /\ UNCHANGED <<buffer, fragVars, last, sysVars, readVars, termVars, layoutVars, frameVars, styleVars>>

\* the Frame can be called
FrameLive == frame # NoFrame /\ ~frame.dead /\ frame_call.count < MaxFrameCalls

\* frame.set_style(style)
SetStyle(style) ==
    /\ FrameLive
    /\ frame' = set_style(frame, style)
    /\ frame_call' = FrameCall("set_style", 0, 0, <<>>, style, frame.current_style,
                               NoBuffer, FALSE, frame_call.outer, {}, frame_call.count + 1)
    /\ UNCHANGED <<buffer, fragVars, last, sysVars, readVars, termVars, renderVars, layoutVars, styleVars>>

\* frame.reset_style()
ResetStyle ==
    /\ FrameLive
    /\ frame' = reset_style(frame)
    /\ frame_call' = FrameCall("reset_style", 0, 0, <<>>, StyleDefault, frame.current_style,
                               NoBuffer, FALSE, frame_call.outer, {}, frame_call.count + 1)
    /\ UNCHANGED <<buffer, fragVars, last, sysVars, readVars, termVars, renderVars, layoutVars, styleVars>>

\* frame.with_style(style, body) is called and body begins
WithStyleEnter(style) ==
    /\ FrameLive
    /\ Len(frame.saved) < MaxNest
    /\ frame' = with_style_enter(frame, style)
    /\ frame_call' = FrameCall("with_style", 0, 0, <<>>, style, frame.current_style,
                               NoBuffer, FALSE,
                               Append(frame_call.outer, frame.current_style), {},
                               frame_call.count + 1)
    /\ UNCHANGED <<buffer, fragVars, last, sysVars, readVars, termVars, renderVars, layoutVars, styleVars>>

\* the body of the innermost with_style returns, and with_style with it
WithStyleExit ==
    /\ FrameLive
    /\ frame.saved # <<>>
    /\ frame' = with_style_exit(frame)
    /\ LET outer == frame_call.outer
       IN  frame_call' = FrameCall("with_style.return", 0, 0, <<>>, StyleDefault,
                                   frame.current_style, NoBuffer, FALSE,
                                   SubSeq(outer, 1, Len(outer) - 1), {outer[Len(outer)]},
                                   frame_call.count + 1)
    /\ UNCHANGED <<buffer, fragVars, last, sysVars, readVars, termVars, renderVars, layoutVars, styleVars>>

\* frame.write_str(x, y, text)
WriteStr(x, y, text) ==
    /\ FrameLive
    /\ LET r == write_str(frame, x, y, text, profile)
       IN  /\ frame' = [frame EXCEPT !.buffer = r.buf, !.dead = r.panic]
           /\ frame_call' = FrameCall("write_str", x, y, text, frame.current_style,
                                      frame.current_style, frame.buffer, r.panic,
                                      frame_call.outer,
                                      IF frame_call.op = "with_style.return"
                                      THEN frame_call.after_exit ELSE {},
                                      frame_call.count + 1)
    /\ UNCHANGED <<buffer, fragVars, last, sysVars, readVars, termVars, renderVars, layoutVars, styleVars>>

\* frame.render_area(area, body) is called and body begins
RenderAreaEnter(area) ==
    /\ FrameLive
    /\ Len(frame.parents) < MaxNest
    /\ frame' = render_area_enter(frame, area)
    /\ frame_call' = FrameCall("render_area", area.x, area.y, <<>>, frame.current_style,
                               frame.current_style, NoBuffer, FALSE, frame_call.outer, {},
                               frame_call.count + 1)
    /\ UNCHANGED <<buffer, fragVars, last, sysVars, readVars, termVars, renderVars, layoutVars, styleVars>>

\* the body of the innermost render_area returns, every with_style it called
\* having returned, and render_area with it
RenderAreaExit ==
    /\ FrameLive
    /\ frame.parents # <<>>
    /\ frame.saved = <<>>
    /\ frame' = render_area_exit(frame)
    /\ frame_call' = FrameCall("render_area.return", 0, 0, <<>>, StyleDefault,
                               frame.current_style, NoBuffer, FALSE, frame_call.outer, {},
                               frame_call.count + 1)
    /\ UNCHANGED <<buffer, fragVars, last, sysVars, readVars, termVars, renderVars, layoutVars, styleVars>>

-----------------------------------------------------------------------------
(* Color::from_hex (src/style.rs); a &str is the sequence of its chars *)

\* char::len_utf8 of the chars in view: the accented letter takes two bytes
len_utf8(c) == IF c = "é" THEN 2 ELSE 1

\* str::len: the length in bytes
RECURSIVE str_len(_)
str_len(s) == IF s = <<>> THEN 0 ELSE len_utf8(s[1]) + str_len(Tail(s))

\* the byte offset at which char k of s begins (k in 1..Len(s) + 1)
byte_offset(s, k) == str_len(SubSeq(s, 1, k - 1))

\* str::is_char_boundary
is_char_boundary(s, idx) == \E k \in 1..(Len(s) + 1) : byte_offset(s, k) = idx

\* &s[a..b]: panics unless both ends are char boundaries
str_slice(s, a, b) ==
    IF ~is_char_boundary(s, a) \/ ~is_char_boundary(s, b)
    THEN [panic |-> TRUE, str |-> <<>>]
    ELSE [panic |-> FALSE,
          str |-> SubSeq(s, (CHOOSE k \in 1..(Len(s) + 1) : byte_offset(s, k) = a),
                            (CHOOSE k \in 1..(Len(s) + 1) : byte_offset(s, k) = b) - 1)]

\* char::to_digit(16), -1 for None
to_digit(c) ==
    CASE c = "0" -> 0  [] c = "1" -> 1  [] c = "2" -> 2  [] c = "3" -> 3
      [] c = "4" -> 4  [] c = "5" -> 5  [] c = "6" -> 6  [] c = "7" -> 7
      [] c = "8" -> 8  [] c = "9" -> 9
      [] c \in {"a", "A"} -> 10  [] c \in {"b", "B"} -> 11  [] c \in {"c", "C"} -> 12
      [] c \in {"d", "D"} -> 13  [] c \in {"e", "E"} -> 14  [] c \in {"f", "F"} -> 15
      [] OTHER -> -1

\* the digit loop of u8::from_str_radix: an invalid digit or a value above
\* u8::MAX is an Err
RECURSIVE radix_digits(_, _)
radix_digits(digits, acc) ==
    IF digits = <<>> THEN [ok |-> TRUE, val |-> acc]
    ELSE LET d == to_digit(digits[1])
         IN  IF d < 0 \/ acc * 16 + d > 255 THEN [ok |-> FALSE, val |-> 0]
             ELSE radix_digits(Tail(digits), acc * 16 + d)

\* u8::from_str_radix(src, 16): Err on the empty string and on a lone sign; one
\* leading '+' is skipped; '-' is no sign of an unsigned type
from_str_radix(src) ==
    IF src = <<>> \/ src = <<"+">> \/ src = <<"-">> THEN [ok |-> FALSE, val |-> 0]
    ELSE IF src[1] = "+" THEN radix_digits(Tail(src), 0)
    ELSE radix_digits(src, 0)

\* hex.strip_prefix("#").unwrap_or(hex)
strip_prefix(hex) == IF hex # <<>> /\ hex[1] = "#" THEN Tail(hex) ELSE hex

\* Color::Rgb
Rgb(r, g, b) == [r |-> r, g |-> g, b |-> b]

\* Option<Color> as a set, with the panic that ends the call instead
HexResult(panic, color) == [panic |-> panic, color |-> color]

\* Color::from_hex: the slices are taken, and parsed, in the order r, g, b
from_hex(hex) ==
    LET s == strip_prefix(hex)
    IN  IF str_len(s) # 6 THEN HexResult(FALSE, {})
        ELSE LET rs == str_slice(s, 0, 2)
                 gs == str_slice(s, 2, 4)
                 bs == str_slice(s, 4, 6)
                 r == from_str_radix(rs.str)
                 g == from_str_radix(gs.str)
                 b == from_str_radix(bs.str)
             IN  IF rs.panic THEN HexResult(TRUE, {})
                 ELSE IF ~r.ok THEN HexResult(FALSE, {})
                 ELSE IF gs.panic THEN HexResult(TRUE, {})
                 ELSE IF ~g.ok THEN HexResult(FALSE, {})
                 ELSE IF bs.panic THEN HexResult(TRUE, {})
                 ELSE IF ~b.ok THEN HexResult(FALSE, {})
                 ELSE HexResult(FALSE, {Rgb(r.val, g.val, b.val)})

\* a record of one from_hex call
HexCall(done, hex, out) == [done |-> done, hex |-> hex, out |-> out]
NoHexCall == HexCall(FALSE, <<>>, HexResult(FALSE, {}))

\* no from_hex call in view
StyleOff == hex_call = NoHexCall

\* Color::from_hex(hex)
FromHex(hex) ==
    /\ ~hex_call.done
    /\ hex_call' = HexCall(TRUE, hex, from_hex(hex))
    /\ UNCHANGED <<buffer, fragVars, last, sysVars, readVars, termVars, renderVars, layoutVars,
                   frameVars>>

-----------------------------------------------------------------------------
(* SpecFrag: one fresh Parser fed a byte stream in consecutive chunks *)

FragBytes == {ESC, LBRACKET, UPPER_A, UPPER_M, 195, 169}

InitFrag ==
    /\ stream = <<>>
    /\ buffer = ParserNew
    /\ emitted = <<>>
    /\ was_pending = FALSE
    /\ last = NoCall
    /\ InputIdle
    /\ TermOff
    /\ RenderOff
    /\ LayoutOff
    /\ FrameOff
    /\ StyleOff

\* parser.parse(chunk), the next chunk of the stream
FeedChunk(chunk) ==
    /\ LET r == parse(buffer, chunk)
       IN  /\ buffer' = r.buffer
           /\ emitted' = emitted \o r.events
    /\ was_pending' = has_pending_state(buffer)
    /\ stream' = stream \o chunk
    /\ UNCHANGED <<last, sysVars, readVars, termVars, renderVars, layoutVars, frameVars, styleVars>>

\* the X10 reports fed whole or in pieces; their data bytes are read as data
ReportData == {CR, ESC, 32}
Reports == {<<ESC, LBRACKET, UPPER_M, b, x, y>> : b \in ReportData, x \in ReportData,
                                                    y \in ReportData}

\* the next chunk is any bytes, or the next piece of a report begun by the stream
NextFrag ==
    \/ \E n \in 1..(MaxLen - Len(stream)) : \E chunk \in [1..n -> FragBytes] : FeedChunk(chunk)
    \/ \E report \in Reports : \E k \in (Len(stream) + 1)..Len(report) :
          /\ SubSeq(report, 1, Len(stream)) = stream
          /\ FeedChunk(SubSeq(report, Len(stream) + 1, k))

SpecFrag == InitFrag /\ [][NextFrag]_vars

\* C1: feeding a byte sequence to one Parser in any consecutive chunks yields,
\* concatenated, the events and the residual queue of a single parse of the
\* whole sequence on a fresh Parser; ESC then "[A" yields the single Up event
\* and has_pending_state is true only between the two calls.
C1_FragmentationInvariant ==
    LET whole == parse(ParserNew, stream)
    IN  /\ emitted = whole.events
        /\ buffer = whole.buffer
        /\ (stream = <<>> => ~has_pending_state(buffer))
        /\ (stream = <<ESC>> => has_pending_state(buffer) /\ emitted = <<>>)
        /\ (stream = <<ESC, LBRACKET, UPPER_A>> =>
                ~has_pending_state(buffer) /\ emitted = <<KeyEvent(KeyUp)>>)

\* the second of two calls found the ESC of the first pending and completed Up
C1_Witness ==
    /\ stream = <<ESC, LBRACKET, UPPER_A>>
    /\ was_pending
    /\ emitted = <<KeyEvent(KeyUp)>>
    /\ buffer = <<>>

-----------------------------------------------------------------------------
(* SpecParser: one Parser, parse and finish_incomplete called in any order *)

ParserBytes == {CR, ESC, LBRACKET, UPPER_A, UPPER_M, 195}

InitParser ==
    /\ buffer = ParserNew
    /\ last = NoCall
    /\ stream = <<>>
    /\ emitted = <<>>
    /\ was_pending = FALSE
    /\ InputIdle
    /\ TermOff
    /\ RenderOff
    /\ LayoutOff
    /\ FrameOff
    /\ StyleOff

\* parser.parse(bytes)
ParseCall(bytes) ==
    /\ LET r == parse(buffer, bytes)
       IN  /\ buffer' = r.buffer
           /\ last' = Call("parse", buffer, r.events)
    /\ UNCHANGED <<fragVars, sysVars, readVars, termVars, renderVars, layoutVars, frameVars, styleVars>>

\* parser.finish_incomplete()
FinishIncompleteCall ==
    /\ LET r == finish_incomplete(buffer)
       IN  /\ buffer' = r.buffer
           /\ last' = Call("finish", buffer, r.events)
    /\ UNCHANGED <<fragVars, sysVars, readVars, termVars, renderVars, layoutVars, frameVars, styleVars>>

NextParser ==
    \/ \E bytes \in SeqsUpTo(ParserBytes, MaxChunk) : ParseCall(bytes)
    \/ FinishIncompleteCall

SpecParser == InitParser /\ [][NextParser]_vars

\* C3: finish_incomplete returns exactly one Esc event if the first residual
\* byte is ESC and no event otherwise (none on an empty queue), and always
\* leaves the residual queue empty: every other residual byte is discarded.
C3_FinishIncomplete ==
    last.op = "finish" =>
        /\ last.events = IF last.pre # <<>> /\ last.pre[1] = ESC
                         THEN <<KeyEvent(KeyEsc)>>
                         ELSE <<>>
        /\ buffer = <<>>
        /\ ~has_pending_state(buffer)

\* finish_incomplete ran on ESC followed by further bytes: one Esc, rest dropped
C3_Witness ==
    /\ last.op = "finish"
    /\ Len(last.pre) >= 2 /\ last.pre[1] = ESC
    /\ last.events = <<KeyEvent(KeyEsc)>>
    /\ buffer = <<>>

-----------------------------------------------------------------------------
(* SpecRead: successive Input::read cycles over a pre-loaded device *)

ReadBytes == {ESC, LBRACKET, UPPER_A, 195, 169}

InitRead ==
    /\ preload \in SeqsUpTo(ReadBytes, MaxQueue)
    /\ input_buffer = preload
    /\ \/ system = "MockSystem" /\ max_read_size \in {{}} \cup {{n} : n \in 1..MaxCap}
       \/ system = "AnySystem" /\ max_read_size = {}
    /\ buffer = ParserNew
    /\ rpc = "idle"
    /\ cyc = NoCycle
    /\ delivered = <<>>
    /\ stream = <<>>
    /\ emitted = <<>>
    /\ was_pending = FALSE
    /\ last = NoCall
    /\ TermOff
    /\ RenderOff
    /\ LayoutOff
    /\ FrameOff
    /\ StyleOff

\* Input::read's steps, the Terminal taken as given
ReadFirst == \E out \in ReadOutcomes : read_first(out) /\ UNCHANGED <<termVars, renderVars, layoutVars, frameVars, styleVars>>
Poll == \E out \in PollOutcomes : read_poll(out) /\ UNCHANGED <<termVars, renderVars, layoutVars, frameVars, styleVars>>
ReadAgain == \E out \in ReadOutcomes : read_again(out) /\ UNCHANGED <<termVars, renderVars, layoutVars, frameVars, styleVars>>

NextRead == ReadFirst \/ Poll \/ ReadAgain

SpecRead == InitRead /\ [][NextRead]_vars

\* C2: on the MockSystem, whatever the per-call read cap (>= 1), once the
\* pre-loaded queue is drained and the cycle has returned, the events
\* delivered by the successive read cycles are those of the uncapped read.
C2_CapInvariant ==
    (system = "MockSystem" /\ rpc = "idle" /\ input_buffer = <<>>) =>
        delivered = UncappedRead(preload)

\* "ESC [ A" read one byte per call (test_input_split_arrow), drained
C2_Witness ==
    /\ system = "MockSystem" /\ max_read_size = {1}
    /\ preload = <<ESC, LBRACKET, UPPER_A>>
    /\ rpc = "idle" /\ input_buffer = <<>>
    /\ delivered = <<KeyEvent(KeyUp)>>

InitReadLive == InitRead /\ Len(preload) <= MaxPending
SpecReadLive == InitReadLive /\ [][NextRead]_vars /\ WF_vars(NextRead)

\* C33: every read cycle terminates: once the device's input is exhausted,
\* Input::read returns after finitely many device calls, whatever the device
\* answers from then on (also a ready poll followed by a failed or empty read
\* while the decoder holds pending bytes).
C33_ReadTerminates == (rpc # "idle" /\ input_buffer = <<>>) ~> (rpc = "idle")

-----------------------------------------------------------------------------
(* SpecTerm: run(app) over any System: new_with_system, run_app, Drop *)

LOWER_Q == 113

TermInputs == {<<>>, <<LOWER_Q>>, <<ESC, LOWER_Q>>}

InitTerm ==
    /\ tpc = "new.open"
    /\ original_termios = {}
    /\ log = <<>>
    /\ built_at = -1
    /\ drop_at = -1
    /\ failed = {}
    /\ sink = <<>>
    /\ logger_init \in BOOLEAN
    /\ io_err = {}
    /\ result = NoResult
    /\ held = NoSize
    /\ wsize = NoSize
    /\ todo = <<>>
    /\ batch = <<>>
    /\ system = "AnySystem"
    /\ preload \in TermInputs
    /\ input_buffer = preload
    /\ max_read_size = {}
    /\ buffer = ParserNew
    /\ rpc = "idle"
    /\ cyc = NoCycle
    /\ delivered = <<>>
    /\ stream = <<>>
    /\ emitted = <<>>
    /\ was_pending = FALSE
    /\ last = NoCall
    /\ RenderOff
    /\ LayoutOff
    /\ FrameOff
    /\ StyleOff

NextTerm ==
    \/ \E step \in NewSteps : \E ok \in BOOLEAN : NewStep(step, ok)
    \/ \E cmd \in {"None", "Quit"} : AppInit(cmd)
    \/ \E ok \in BOOLEAN : \E size \in Sizes : AppSize(ok, size)
    \/ \E ok \in BOOLEAN : AppClear(ok)
    \/ \E ok \in BOOLEAN : \E size \in Sizes : \E k \in 0..MaxCells : LoopSize(ok, size, k)
    \/ \E ok \in BOOLEAN : LoopRender(ok)
    \/ LoopInput
    \/ \E act \in {"ignore", "none", "quit"} : LoopDispatch(act)
    \/ LoopSleep
    \/ \E step \in DropSteps : \E ok \in BOOLEAN : DropStep(step, ok)

SpecTerm == InitTerm /\ [][NextTerm]_vars

\* how often `call` was made
Count(call) == Cardinality({i \in DOMAIN log : log[i].call = call})

\* the device was opened: open_tty was called and did not fail
Opened == log # <<>> /\ result # Result("err", "new.open")

ConstructionCalls ==
    <<SysCall("open_tty", ""), SysCall("enable_raw", ""),
      Write(HIDE_CURSOR), Write(MOUSE_ON), Write(ALT_ON)>>

TeardownWrites == <<Write(MOUSE_OFF), Write(ALT_OFF), Write(SHOW_CURSOR)>>

TeardownCalls ==
    TeardownWrites \o <<SysCall("disable_raw", TERMIOS), SysCall("close_tty", "")>>

\* the calls made since Drop for Terminal began
SinceDrop == SubSeq(log, drop_at + 1, Len(log))

\* C5: once the device is open, every way out of new_with_system and run_app
\* (init Quit, update Quit, a device error) closes it exactly once and, if raw
\* mode was enabled, restores the captured configuration exactly once; neither
\* is done twice or missed, and no device call follows the close.
C5_ReleaseOnce ==
    /\ Count("close_tty") <= 1
    /\ Count("disable_raw") <= 1
    /\ Count("close_tty") = 1 => log[Len(log)].call = "close_tty" /\ tpc = "done"
    /\ (tpc = "done" /\ Opened) =>
          /\ Count("close_tty") = 1
          /\ Count("disable_raw") = IF original_termios # {} THEN 1 ELSE 0
    /\ (built_at >= 0 /\ result.kind # "none") => tpc \in DropSteps \cup {"done"}
    /\ ~Opened => Count("close_tty") = 0 /\ Count("disable_raw") = 0

\* a write failed inside the loop, the error was returned, the device released
C5_Witness ==
    /\ tpc = "done"
    /\ result = Result("err", "write")
    /\ drop_at > built_at + 2
    /\ Count("close_tty") = 1 /\ Count("disable_raw") = 1

\* C6: the calls of a Terminal constructed and then destroyed are open_tty,
\* enable_raw, the writes hide-cursor, mouse-on, alternate-screen-on, then the
\* caller's calls, then the writes mouse-off, alternate-screen-off,
\* show-cursor, disable_raw with the captured configuration, close_tty.
C6_CallSequence ==
    /\ built_at >= 0 =>
          /\ built_at = Len(ConstructionCalls)
          /\ SubSeq(log, 1, built_at) = ConstructionCalls
    /\ (built_at >= 0 /\ tpc = "done") =>
          /\ drop_at >= built_at
          /\ SinceDrop = TeardownCalls
          /\ \A i \in (built_at + 1)..drop_at :
                /\ log[i].call \in {"get_window_size", "write", "read", "poll"}
                /\ log[i].call = "write" =>
                      log[i].arg \in {CLEAR, "cursor", "style", "symbol"}

\* constructed, ran two frames' worth of calls, quit, torn down without a failure
C6_Witness ==
    /\ tpc = "done"
    /\ built_at = 5 /\ drop_at >= 10
    /\ result = Result("ok", "update")
    /\ failed = {}
    /\ Len(log) = drop_at + 5

\* C7: construction stops at the first failing step and returns its error:
\* after a failed open nothing else is called; after a failed enable_raw (or
\* write) the later construction writes are never made; no Terminal is handed
\* to the caller.
C7_ConstructionAborts ==
    /\ result = Result("err", "new.open") =>
          /\ log = <<SysCall("open_tty", "")>>
          /\ tpc = "done" /\ built_at = -1 /\ original_termios = {}
    /\ result = Result("err", "new.raw") =>
          /\ \A i \in DOMAIN log : log[i] \notin {Write(HIDE_CURSOR), Write(MOUSE_ON), Write(ALT_ON)}
          /\ Count("enable_raw") = 1
          /\ built_at = -1 /\ original_termios = {}
    /\ result = Result("err", "new.hide") =>
          /\ \A i \in DOMAIN log : log[i] \notin {Write(MOUSE_ON), Write(ALT_ON)}
          /\ built_at = -1
    /\ result = Result("err", "new.mouse") =>
          /\ \A i \in DOMAIN log : log[i] # Write(ALT_ON)
          /\ built_at = -1
    /\ result = Result("err", "new.alt") => built_at = -1
    /\ (result.kind = "err" /\ result.at \in NewSteps) =>
          tpc \in DropSteps \cup {"done"}
    /\ built_at >= 0 => Count("enable_raw") = 1 /\ original_termios # {}

\* enable_raw failed: the error is returned and the program is over
C7_Witness ==
    /\ result = Result("err", "new.raw")
    /\ tpc = "done"
    /\ Count("open_tty") = 1 /\ Count("enable_raw") = 1

\* C8 (as claimed): after a failed enable_raw nothing is torn down that was
\* never set up: no control sequence is written, the terminal gets no bytes,
\* raw mode is not restored.
C8_NoTeardownOfUnexecutedSteps ==
    result = Result("err", "new.raw") =>
        /\ Count("write") = 0
        /\ Count("disable_raw") = 0

\* C9: Drop for Terminal attempts each teardown step exactly once, in order,
\* whatever failed before it (the restore only if a configuration was
\* captured, as it is in every constructed Terminal), and no teardown failure
\* reaches the caller.
C9_TeardownNeverEscalates ==
    /\ (tpc = "done" /\ drop_at >= 0) =>
          SinceDrop = TeardownWrites
                      \o (IF original_termios # {} THEN <<SysCall("disable_raw", TERMIOS)>> ELSE <<>>)
                      \o <<SysCall("close_tty", "")>>
    /\ (tpc = "done" /\ built_at >= 0) => SinceDrop = TeardownCalls
    /\ failed \subseteq DropSteps
    /\ result.at \notin DropSteps
    /\ (tpc = "done" /\ built_at >= 0) =>
          result \in {Result("ok", "init"), Result("ok", "update"),
                      Result("err", "get_window_size"), Result("err", "write")}

\* all five teardown steps failed, all five were attempted, run_app's Ok stands
C9_Witness ==
    /\ tpc = "done"
    /\ failed = DropSteps
    /\ built_at >= 0
    /\ result = Result("ok", "update")
    /\ SinceDrop = TeardownCalls

\* C10 (as claimed): every teardown step that failed has a record in the
\* diagnostic sink.
C10_EveryFailureLogged ==
    \A step \in failed : \E i \in DOMAIN sink : sink[i] = step

\* run_app has returned (or new_with_system failed): teardown, or all over
Left == tpc \in DropSteps \cup {"done"}

\* the teardown calls made so far are the first ones of the teardown sequence
TeardownSoFar == SinceDrop = SubSeq(TeardownCalls, 1, Len(SinceDrop))

\* C11 (as claimed): a device call that fails inside the loop, the blocking
\* read and the poll included, makes run_app stop and return an error.
C11_DeviceFailureAborts ==
    io_err # {} => Left /\ result.kind = "err"

\* C12: if init() returns Quit, nothing of the loop happens: no window-size
\* query, clear, render or read, no event is decoded or dispatched; run_app
\* returns Ok and the teardown sequence runs, once.
C12_InitQuit ==
    result = Result("ok", "init") =>
        /\ Left
        /\ built_at = Len(ConstructionCalls) /\ drop_at = built_at
        /\ SubSeq(log, 1, built_at) = ConstructionCalls
        /\ TeardownSoFar
        /\ tpc = "done" => SinceDrop = TeardownCalls
        /\ held = NoSize /\ wsize = NoSize /\ todo = <<>>
        /\ rpc = "idle" /\ cyc = NoCycle /\ input_buffer = preload
        /\ delivered = <<>> /\ batch = <<>>

\* init quit, and the ten calls of construction and teardown are all there is
C12_Witness ==
    /\ result = Result("ok", "init")
    /\ tpc = "done"
    /\ log = ConstructionCalls \o TeardownCalls

\* C13: once update returns Quit run_app returns Ok at once: the rest of the
\* batch is not dispatched, the last device call before teardown is the one
\* of the input phase, and only teardown calls follow.
C13_QuitEndsLoop ==
    result = Result("ok", "update") =>
        /\ Left
        /\ batch # <<>>
        /\ Len(batch) <= Len(cyc.events)
        /\ batch = SubSeq(cyc.events, Len(cyc.events) - Len(batch) + 1, Len(cyc.events))
        /\ drop_at > built_at /\ log[drop_at].call \in {"read", "poll"}
        /\ TeardownSoFar
        /\ rpc = "idle" /\ todo = <<>>

\* update quit on the first of two events; the second was never dispatched
C13_Witness ==
    /\ result = Result("ok", "update")
    /\ tpc = "done"
    /\ Len(batch) = 2 /\ batch = cyc.events

-----------------------------------------------------------------------------
(* SpecRender: a Renderer and the frames of the loop: Buffer::new, the sets *)
(* of draw, render with any write failing                                   *)

\* sizes whose cell count does not fit 16 bits: 65536 and 65538 cells
BigDims == {<<256, 256>>, <<2, 32769>>}

\* the sizes a Buffer is made with
Dims ==
    {d \in (0..MaxSide) \X (0..MaxSide) : d[1] * d[2] <= MaxArea} \cup BigDims

Symbols == {" ", "X"}

\* the coordinates that are set: the small ones, and the last row of the
\* tall Buffer
Xs == 0..MaxSide
Ys == (0..MaxSide) \cup {32768}

InitRender ==
    /\ profile \in {"debug", "release"}
    /\ \E d \in Dims :
          LET r == BufferNew(d[1], d[2], profile)
          IN  /\ panicked = IF r.panic THEN "overflow" ELSE "none"
              /\ current_buffer = IF r.panic THEN NoBuffer ELSE r.buf
    /\ next_buffer = NoBuffer
    /\ phase = "start"
    /\ writes = <<>>
    /\ rres = "none"
    /\ rprev = NoBuffer
    /\ last_ok = {}
    /\ again = FALSE
    /\ bop = NoSet
    /\ buffer = ParserNew
    /\ stream = <<>>
    /\ emitted = <<>>
    /\ was_pending = FALSE
    /\ last = NoCall
    /\ InputIdle
    /\ TermOff
    /\ LayoutOff
    /\ FrameOff
    /\ StyleOff

NextRender ==
    \/ \E d \in Dims : NewFrame(d[1], d[2])
    \/ \E x \in Xs : \E y \in Xs : \E symbol \in Symbols : Draw(x, y, symbol)
    \/ \E done \in 0..Len(RenderPlan(current_buffer, next_buffer)) : Render(done)

SpecRender == InitRender /\ [][NextRender]_vars

-----------------------------------------------------------------------------
(* SpecBuf: one Buffer made by Buffer::new and changed by set calls *)

InitBuf ==
    /\ profile \in {"debug", "release"}
    /\ panicked = "none"
    /\ next_buffer = NoBuffer
    /\ current_buffer = NoBuffer
    /\ phase = "nobuf"
    /\ writes = <<>>
    /\ rres = "none"
    /\ rprev = NoBuffer
    /\ last_ok = {}
    /\ again = FALSE
    /\ bop = NoSet
    /\ buffer = ParserNew
    /\ stream = <<>>
    /\ emitted = <<>>
    /\ was_pending = FALSE
    /\ last = NoCall
    /\ InputIdle
    /\ TermOff
    /\ LayoutOff
    /\ FrameOff
    /\ StyleOff

NextBuf ==
    \/ \E d \in Dims : NewBuffer(d[1], d[2])
    \/ \E x \in Xs : \E y \in Ys : \E symbol \in Symbols : SetCell(x, y, symbol)

SpecBuf == InitBuf /\ [][NextBuf]_vars

\* the two buffers have the same width and the same height
EqualDims(a, b) == a.width = b.width /\ a.height = b.height

\* the 0-based place in row-major order of the cell a Change names
PlaceOf(b, change) == change.y * b.width + change.x

\* C15: a render of a buffer that directly follows a successful render of an
\* equal buffer finds an empty diff and writes nothing to the device.
C15_RenderIdempotent ==
    (phase = "rendered" /\ again) =>
        /\ writes = <<>>
        /\ rres = "ok"
        /\ diff(next_buffer, rprev) = <<>>
        /\ current_buffer = next_buffer

\* a frame with an X in it was rendered twice in a row; the second wrote nothing
C15_Witness ==
    /\ phase = "rendered" /\ again
    /\ \E i \in DOMAIN next_buffer.content : next_buffer.content[i] = Cell("X")
    /\ writes = <<>>

\* what a render that repaints all of b writes: the clear, then every cell of
\* the width x height grid in row-major order
FullRepaint(b) ==
    <<ClearWrite>>
    \o ChangeWrites([i \in 1..(b.width * b.height) |->
                       Change((i - 1) % b.width, (i - 1) \div b.width, b.content[i])])

\* C16 (as claimed): a successful render to a held buffer of other dimensions
\* writes one clear and then all width x height cells of next in row-major
\* order; with equal dimensions it writes no clear and only the differing cells.
C16_RepaintOrDelta ==
    (phase = "rendered" /\ rres = "ok") =>
        IF ~EqualDims(next_buffer, rprev)
        THEN /\ Len(writes) = 1 + 3 * next_buffer.width * next_buffer.height
             /\ writes = FullRepaint(next_buffer)
        ELSE /\ \A k \in DOMAIN writes : writes[k] # ClearWrite
             /\ Len(writes) =
                  3 * Cardinality({i \in DOMAIN next_buffer.content :
                                     next_buffer.content[i] # rprev.content[i]})

\* the properties of `changes` as the diff of a against an equal-sized b
DiffOfEqualSized(a, b, changes) ==
    /\ \A k \in DOMAIN changes :
          /\ changes[k].x < a.width
          /\ PlaceOf(a, changes[k]) < Len(a.content)
          /\ changes[k].cell = a.content[PlaceOf(a, changes[k]) + 1]
          /\ a.content[PlaceOf(a, changes[k]) + 1] # b.content[PlaceOf(a, changes[k]) + 1]
          /\ k > 1 => PlaceOf(a, changes[k - 1]) < PlaceOf(a, changes[k])
    /\ \A i \in DOMAIN a.content :
          a.content[i] # b.content[i] =>
              \E k \in DOMAIN changes : PlaceOf(a, changes[k]) = i - 1

\* C17: for buffers of equal dimensions the diff has one Change for exactly
\* the places whose cells differ, with the cell of the first buffer, in
\* row-major order, x = place mod width, y = place div width; the diff of a
\* buffer with itself is empty.
C17_DiffEqualDims ==
    /\ EqualDims(next_buffer, current_buffer) =>
          /\ DiffOfEqualSized(next_buffer, current_buffer,
                              diff(next_buffer, current_buffer))
          /\ DiffOfEqualSized(current_buffer, next_buffer,
                              diff(current_buffer, next_buffer))
    /\ diff(next_buffer, next_buffer) = <<>>
    /\ diff(current_buffer, current_buffer) = <<>>

\* a 2 x 2 frame that differs from the held buffer in two of its four cells
C17_Witness ==
    /\ phase = "draw"
    /\ EqualDims(next_buffer, current_buffer)
    /\ Len(next_buffer.content) = 4
    /\ Len(diff(next_buffer, current_buffer)) = 2

\* the properties of `changes` as the full listing of a
FullListing(a, changes) ==
    /\ Len(changes) = Len(a.content)
    /\ \A k \in DOMAIN changes :
          /\ PlaceOf(a, changes[k]) = k - 1
          /\ changes[k].x < a.width
          /\ changes[k].y < a.height
          /\ changes[k].cell = a.content[k]

\* C18: for buffers whose width or height differ, also with equal cell
\* counts, the diff lists every cell of the first buffer once, in row-major
\* order with its coordinates, whatever the second buffer holds.
C18_DiffSizeMismatch ==
    ~EqualDims(next_buffer, current_buffer) =>
        /\ FullListing(next_buffer, diff(next_buffer, current_buffer))
        /\ FullListing(current_buffer, diff(current_buffer, next_buffer))

\* a 1 x 2 frame with an X against a held 2 x 1 buffer: same count, other shape
C18_Witness ==
    /\ phase = "draw"
    /\ next_buffer.width = 1 /\ next_buffer.height = 2
    /\ current_buffer.width = 2 /\ current_buffer.height = 1
    /\ next_buffer.content[2] = Cell("X")
    /\ current_buffer.content[1] = Cell("X")

\* the (x, y) of the model that are in bounds of b
InBounds(b) == {c \in Xs \X Ys : c[1] < b.width /\ c[2] < b.height}

\* C19 (as claimed): for every width and height Buffer::new gives a cell
\* sequence of length width x height, set calls keep it, and index maps the
\* in-bounds coordinates to distinct places inside the sequence.
C19_BufferSizeInvariant ==
    /\ panicked # "overflow"
    /\ phase = "buf" =>
        /\ Len(next_buffer.content) = next_buffer.width * next_buffer.height
        /\ \A c \in InBounds(next_buffer) :
              /\ ~index(next_buffer, c[1], c[2], profile).panic
              /\ index(next_buffer, c[1], c[2], profile).val
                    = c[2] * next_buffer.width + c[1]
              /\ index(next_buffer, c[1], c[2], profile).val < Len(next_buffer.content)

\* C20 (as claimed): an in-bounds set changes the cell at (x, y) and no other
\* cell, so that get(x, y) returns the symbol; an out-of-bounds set changes
\* nothing; neither fails.
C20_SetInBoundsOnly ==
    bop.op = "set" =>
        /\ panicked = "none"
        /\ next_buffer.width = bop.pre.width /\ next_buffer.height = bop.pre.height
        /\ IF <<bop.x, bop.y>> \in InBounds(bop.pre)
           THEN /\ BufferGet(next_buffer, bop.x, bop.y, profile)
                     = [panic |-> FALSE, cell |-> Cell(bop.symbol)]
                /\ \A c \in InBounds(bop.pre) \ {<<bop.x, bop.y>>} :
                      BufferGet(next_buffer, c[1], c[2], profile)
                          = BufferGet(bop.pre, c[1], c[2], profile)
           ELSE next_buffer = bop.pre

-----------------------------------------------------------------------------
(* SpecOnce: one fresh Parser, one parse call on one input *)

\* the concatenation of a sequence of byte strings
RECURSIVE Flatten(_)
Flatten(ss) == IF ss = <<>> THEN <<>> ELSE Head(ss) \o Flatten(Tail(ss))

\* complete units: Enter, Up, two mouse reports (the second with CR, ESC and a
\* lead byte as data), and characters of 1, 2, 3 and 4 bytes
Units ==
    { <<CR>>,
      <<ESC, LBRACKET, UPPER_A>>,
      <<ESC, LBRACKET, UPPER_M, 32, 33, 33>>,
      <<ESC, LBRACKET, UPPER_M, 27, 13, 195>>,
      <<UPPER_A>>,
      <<LBRACKET>>,
      <<195, 169>>,
      <<226, 130, 172>>,
      <<240, 159, 152, 128>> }

\* every value of the button byte, and coordinate bytes around the offsets
ButtonBytes == 0..255
CoordBytes == {0, CR, ESC, 32, 33, 34, 255}

\* bytes of every class the loop distinguishes: CR, ESC, '[', 'A', 'M', 'B',
\* a 2-byte lead, a continuation byte, a 3-byte lead, a byte of width 0
OnceBytes == {CR, ESC, LBRACKET, UPPER_A, UPPER_M, 66, 195, 169, 226, 255}

InitOnce ==
    /\ buffer = ParserNew
    /\ last = NoCall
    /\ stream = <<>>
    /\ emitted = <<>>
    /\ was_pending = FALSE
    /\ InputIdle
    /\ TermOff
    /\ RenderOff
    /\ LayoutOff
    /\ FrameOff
    /\ StyleOff

\* the one call parser.parse(bytes) of a Parser::new()
ParseOnce(bytes) ==
    /\ last = NoCall
    /\ LET r == parse(buffer, bytes)
       IN  /\ buffer' = r.buffer
           /\ emitted' = r.events
           /\ last' = Call("parse", buffer, r.events)
    /\ stream' = bytes
    /\ was_pending' = has_pending_state(buffer)
    /\ UNCHANGED <<sysVars, readVars, termVars, renderVars, layoutVars, frameVars, styleVars>>

\* the inputs: unit sequences, whole or cut short inside the last unit, single
\* mouse reports, arbitrary byte strings
ParseUnits ==
    /\ last = NoCall
    /\ \E us \in SeqsUpTo(Units, MaxUnits) : ParseOnce(Flatten(us))
ParseCut ==
    /\ last = NoCall
    /\ \E us \in SeqsUpTo(Units, MaxUnits - 1) : \E u \in Units : \E k \in 1..(Len(u) - 1) :
          ParseOnce(Flatten(us) \o SubSeq(u, 1, k))
ParseReport ==
    /\ last = NoCall
    /\ \E cb \in ButtonBytes : \E cx \in CoordBytes : \E cy \in CoordBytes :
          ParseOnce(<<ESC, LBRACKET, UPPER_M, cb, cx, cy>>)
ParseBytes ==
    /\ last = NoCall
    /\ \E n \in 0..MaxBytes : \E bytes \in [1..n -> OnceBytes] : ParseOnce(bytes)

NextOnce ==
    \/ ParseUnits
    \/ ParseCut
    \/ ParseReport
    \/ ParseBytes

SpecOnce == InitOnce /\ [][NextOnce]_vars

\* the call has been made
Parsed == last.op = "parse"

\* the length of the UTF-8 encoding that the lead byte b opens, 0 if none does
EncodingLen(b) ==
    IF b < 128 THEN 1
    ELSE IF b >= 194 /\ b <= 223 THEN 2
    ELSE IF b >= 224 /\ b <= 239 THEN 3
    ELSE IF b >= 240 /\ b <= 244 THEN 4
    ELSE 0

\* the length of the complete unit at the front of s, 0 if there is none
UnitLen(s) ==
    IF s = <<>> THEN 0
    ELSE IF s[1] = CR THEN 1
    ELSE IF s[1] = ESC THEN
        IF Len(s) >= 3 /\ s[2] = LBRACKET /\ s[3] = UPPER_A THEN 3
        ELSE IF Len(s) >= 6 /\ s[2] = LBRACKET /\ s[3] = UPPER_M THEN 6
        ELSE 0
    ELSE LET w == EncodingLen(s[1])
         IN  IF w > 0 /\ Len(s) >= w /\ from_utf8_ok(SubSeq(s, 1, w)) THEN w ELSE 0

\* the complete units s begins with, in order, and the rest of s, which does
\* not begin with a complete unit; ok says that s is made of units only
RECURSIVE UnitsOf(_, _)
UnitsOf(s, acc) ==
    IF s = <<>> THEN [ok |-> TRUE, units |-> acc, rest |-> s]
    ELSE LET n == UnitLen(s)
         IN  IF n = 0 THEN [ok |-> FALSE, units |-> acc, rest |-> s]
             ELSE UnitsOf(SubSeq(s, n + 1, Len(s)), Append(acc, SubSeq(s, 1, n)))

\* the event the unit u stands for
IsEventOf(e, u) ==
    IF u = <<CR>> THEN e = KeyEvent(KeyEnter)
    ELSE IF u = <<ESC, LBRACKET, UPPER_A>> THEN e = KeyEvent(KeyUp)
    ELSE IF u[1] = ESC THEN e.tag = "Mouse"
    ELSE e = KeyEvent(KeyChar(utf8_scalar(u)))

\* C21: for an input made only of complete units (CR, ESC [ A, a 6-byte X10
\* mouse report, the UTF-8 encoding of a scalar other than CR and ESC) a single
\* parse call returns exactly one event per unit, in input order (CR -> Enter,
\* ESC [ A -> Up, report -> Mouse, scalar -> Char(scalar)), and leaves no
\* pending state.
C21_CompleteUnits ==
    Parsed =>
        LET d == UnitsOf(stream, <<>>)
        IN  d.ok =>
                /\ Len(emitted) = Len(d.units)
                /\ \A i \in 1..Len(d.units) : IsEventOf(emitted[i], d.units[i])
                /\ buffer = <<>>
                /\ ~has_pending_state(buffer)

\* Enter, a mouse report and a two-byte character decoded by one call
C21_Witness ==
    /\ Parsed
    /\ stream = <<CR, ESC, LBRACKET, UPPER_M, 32, 33, 33, 195, 169>>
    /\ Len(emitted) = 3
    /\ emitted[1] = KeyEvent(KeyEnter)
    /\ emitted[2].tag = "Mouse"
    /\ emitted[3] = KeyEvent(KeyChar(233))
    /\ buffer = <<>>

\* the kind the button byte b selects by b - 32
KindOfButton(b) ==
    LET d == b - 32
    IN  IF d = 0 THEN "LeftClick"
        ELSE IF d = 1 THEN "MiddleClick"
        ELSE IF d = 2 THEN "RightClick"
        ELSE IF d = 64 THEN "ScrollUp"
        ELSE IF d = 65 THEN "ScrollDown"
        ELSE "Other"

\* v - 33 clamped at 0
CoordOf(v) == IF v > 33 THEN v - 33 ELSE 0

\* the input was one X10 mouse report
IsReport(s) == Len(s) = 6 /\ s[1] = ESC /\ s[2] = LBRACKET /\ s[3] = UPPER_M

\* C22: for every X10 mouse report ESC [ M b x y, with arbitrary bytes b, x, y,
\* parse consumes all 6 bytes and emits exactly one Mouse event whose kind is
\* selected by b - 32 (0 LeftClick, 1 MiddleClick, 2 RightClick, 64 ScrollUp,
\* 65 ScrollDown, anything else Other) and whose coordinates are x - 33 and
\* y - 33 clamped at 0; the data bytes are never read as CR, ESC or characters.
C22_MouseReport ==
    Parsed /\ IsReport(stream) =>
        /\ buffer = <<>>
        /\ emitted = <<MouseEvent(CoordOf(stream[5]), CoordOf(stream[6]),
                                  KindOfButton(stream[4]))>>

\* p is an incomplete prefix: ESC alone, ESC [ with no third byte, ESC [ M with
\* fewer than three data bytes, or a lead byte of width w with fewer than w bytes
IsIncompletePrefix(p) ==
    /\ p # <<>>
    /\ IF p[1] = ESC
       THEN \/ Len(p) = 1
            \/ Len(p) = 2 /\ p[2] = LBRACKET
            \/ Len(p) \in 3..5 /\ p[2] = LBRACKET /\ p[3] = UPPER_M
       ELSE p[1] # CR /\ Len(p) < utf8_char_width(p[1])

\* C23: when the front of the queue is an incomplete prefix (ESC alone; ESC [
\* with no third byte; ESC [ M with fewer than three data bytes; a UTF-8 lead
\* byte of width w with fewer than w bytes buffered), parse stops, emits no
\* event for it, consumes none of its bytes, and has_pending_state is true;
\* the events of the complete units before the prefix are still returned.
C23_IncompletePrefixWaits ==
    Parsed =>
        LET d == UnitsOf(stream, <<>>)
        IN  IsIncompletePrefix(d.rest) =>
                /\ Len(emitted) = Len(d.units)
                /\ \A i \in 1..Len(d.units) : IsEventOf(emitted[i], d.units[i])
                /\ buffer = d.rest
                /\ has_pending_state(buffer)

\* Enter, then a mouse report that lacks its last data byte
C23_Witness ==
    /\ Parsed
    /\ stream = <<CR, ESC, LBRACKET, UPPER_M, 32, 33>>
    /\ emitted = <<KeyEvent(KeyEnter)>>
    /\ buffer = <<ESC, LBRACKET, UPPER_M, 32, 33>>
    /\ has_pending_state(buffer)

\* s is ESC followed by a byte other than '[', or by '[' and a third byte other
\* than 'A' and 'M'
IsEscFallback(s) ==
    /\ Len(s) >= 2
    /\ s[1] = ESC
    /\ \/ s[2] # LBRACKET
       \/ Len(s) >= 3 /\ s[3] \notin {UPPER_A, UPPER_M}

\* C24: ESC fallback: when ESC is followed by a byte other than '[', or by '['
\* and a third byte other than 'A' or 'M', parse emits exactly one Esc event
\* and consumes only the ESC byte; the following bytes are then decoded exactly
\* as if they had arrived without the ESC (ESC [ B yields Esc, Char('['),
\* Char('B')).
C24_EscFallback ==
    /\ Parsed /\ IsEscFallback(stream) =>
          LET alone == parse(ParserNew, Tail(stream))
          IN  /\ emitted = <<KeyEvent(KeyEsc)>> \o alone.events
              /\ buffer = alone.buffer
    /\ Parsed /\ stream = <<ESC, LBRACKET, 66>> =>
          /\ emitted = <<KeyEvent(KeyEsc), KeyEvent(KeyChar(LBRACKET)), KeyEvent(KeyChar(66))>>
          /\ buffer = <<>>

\* ESC [ B was parsed: Esc, then '[' and 'B' as characters
C24_Witness ==
    /\ Parsed
    /\ stream = <<ESC, LBRACKET, 66>>
    /\ Len(emitted) = 3
    /\ emitted[1] = KeyEvent(KeyEsc)
    /\ emitted[3] = KeyEvent(KeyChar(66))

\* the bytes of s after its first n
Drop(s, n) == SubSeq(s, n + 1, Len(s))

\* the number of bytes an invalid encoding at the front of s loses: 1 for a
\* byte of width 0, w for a lead byte of width w whose w bytes do not decode;
\* 0 if the front of s is no such encoding
InvalidLen(s) ==
    IF s = <<>> \/ s[1] \in {CR, ESC} THEN 0
    ELSE LET w == utf8_char_width(s[1])
         IN  IF w = 0 THEN 1
             ELSE IF Len(s) >= w /\ ~from_utf8_ok(SubSeq(s, 1, w)) THEN w
             ELSE 0

\* C25: invalid byte encodings produce no event and no error: a front byte of
\* UTF-8 width 0 (a continuation byte or 0xF8-0xFF) causes exactly one byte to
\* be dropped; a lead byte of width w whose w buffered bytes fail UTF-8
\* decoding causes exactly w bytes to be dropped; decoding resumes at the next
\* remaining byte in the same parse call.
C25_InvalidBytesDropped ==
    /\ Parsed /\ InvalidLen(stream) > 0 =>
          LET after == parse(ParserNew, Drop(stream, InvalidLen(stream)))
          IN  /\ emitted = after.events
              /\ buffer = after.buffer
    /\ Parsed /\ stream = <<255, UPPER_A>> =>
          emitted = <<KeyEvent(KeyChar(UPPER_A))>> /\ buffer = <<>>
    /\ Parsed /\ stream = <<169, UPPER_A>> =>
          emitted = <<KeyEvent(KeyChar(UPPER_A))>> /\ buffer = <<>>
    /\ Parsed /\ stream = <<195, UPPER_A, 66>> =>
          emitted = <<KeyEvent(KeyChar(66))>> /\ buffer = <<>>

\* a two-byte lead followed by 'A' did not decode: both bytes were dropped and
\* the 'B' after them was decoded in the same call
C25_Witness ==
    /\ Parsed
    /\ stream = <<195, UPPER_A, 66>>
    /\ emitted = <<KeyEvent(KeyChar(66))>>
    /\ buffer = <<>>

-----------------------------------------------------------------------------
(* SpecLayout: one Layout::split call, in either build *)

Directions == {"Horizontal", "Vertical"}

\* constraints of every variant, among them sizes that exceed the extents below
LayoutConstraints ==
    { Length(2), Length(20), Length(65535), Percentage(50), Percentage(100),
      Ratio(1, 4), Fill, ConstraintMin(6), ConstraintMax(3) }

\* parents: the tests' 10 x 10, an offset one, a wide one, one at the far corner,
\* one that runs past the last column
LayoutRects ==
    { RectNew(0, 0, 10, 10), RectNew(5, 3, 100, 7), RectNew(0, 0, 700, 40),
      RectNew(65530, 65530, 5, 5), RectNew(65530, 0, 10, 1) }

\* total extents and ratios for the layouts of one non-flexible constraint
Extents == {0, 1, 10, 100, 655, 656, 65535}
Ratios == {<<0, 1>>, <<1, 3>>, <<2, 3>>, <<3, 4>>, <<1, 1>>, <<30000, 30000>>}

InitLayout ==
    /\ split_call = NoSplit
    /\ profile \in {"debug", "release"}
    /\ panicked = "none"
    /\ current_buffer = NoBuffer
    /\ next_buffer = NoBuffer
    /\ phase = "off"
    /\ writes = <<>>
    /\ rres = "none"
    /\ rprev = NoBuffer
    /\ last_ok = {}
    /\ again = FALSE
    /\ bop = NoSet
    /\ buffer = ParserNew
    /\ stream = <<>>
    /\ emitted = <<>>
    /\ was_pending = FALSE
    /\ last = NoCall
    /\ InputIdle
    /\ TermOff
    /\ FrameOff
    /\ StyleOff

\* a layout of up to MaxConstraints constraints splits one of the parents
SplitAny ==
    /\ ~split_call.done
    /\ \E direction \in Directions : \E rect \in LayoutRects :
           \E n \in 0..MaxConstraints : \E cs \in [1..n -> LayoutConstraints] :
               Split(direction, cs, rect)

\* a layout of one Percentage constraint splits an extent
SplitPercentage ==
    /\ ~split_call.done
    /\ \E p \in 0..100 : \E e \in Extents :
           Split("Horizontal", <<Percentage(p)>>, RectNew(0, 0, e, 1))

\* a layout of one Ratio constraint splits an extent
SplitRatio ==
    /\ ~split_call.done
    /\ \E r \in Ratios : \E e \in Extents :
           Split("Vertical", <<Ratio(r[1], r[2])>>, RectNew(0, 0, 1, e))

NextLayout ==
    \/ SplitAny
    \/ SplitPercentage
    \/ SplitRatio

SpecLayout == InitLayout /\ [][NextLayout]_vars

\* the call made: its constraints, parent, result; origin and extent of a rect
\* on the split axis
SplitHorizontal == split_call.layout.direction = "Horizontal"
AxisStart(r) == IF SplitHorizontal THEN r.x ELSE r.y
AxisSize(r) == IF SplitHorizontal THEN r.width ELSE r.height
TotalExtent == AxisSize(split_call.rect)

\* the sum of the split-axis sizes of the first k rects of rs
RECURSIVE SizesBefore(_, _)
SizesBefore(rs, k) == IF k = 0 THEN 0 ELSE SizesBefore(rs, k - 1) + AxisSize(rs[k])

\* C26: Layout::split returns exactly N rectangles for N constraints, in
\* constraint order; the first starts at the parent's origin on the split axis,
\* each next one starts where the previous one ends (its offset is the sum of
\* the preceding sizes), so they are contiguous and non-overlapping; origin and
\* extent on the orthogonal axis equal the parent's for every sub-rect.
C26_ContiguousSubRects ==
    split_call.done =>
        LET cs == split_call.layout.constraints
            parent == split_call.rect
            rects == split_call.out.rects
        IN  /\ ~split_call.out.panic
            /\ Len(rects) = Len(cs)
            /\ \A i \in 1..Len(rects) :
                  /\ AxisStart(rects[i]) = AxisStart(parent) + SizesBefore(rects, i - 1)
                  /\ cs[i].kind = "Length" => AxisSize(rects[i]) = cs[i].a
                  /\ IF SplitHorizontal
                     THEN rects[i].y = parent.y /\ rects[i].height = parent.height
                     ELSE rects[i].x = parent.x /\ rects[i].width = parent.width

\* the sum of the sizes split gave to the Length, Percentage and Ratio
\* constraints among the first k, and the number of Fill, Min and Max among them
RECURSIVE FixedSum(_, _, _)
FixedSum(cs, rs, k) ==
    IF k = 0 THEN 0
    ELSE FixedSum(cs, rs, k - 1)
         + (IF cs[k].kind \in {"Length", "Percentage", "Ratio"} THEN AxisSize(rs[k]) ELSE 0)
FlexCount(cs) == Cardinality({k \in 1..Len(cs) : cs[k].kind \in {"Fill", "Min", "Max"}})

\* floor((total - fixed_sum) / flex_count), or 0 without a flexible constraint;
\* sizes being unsigned, a fixed_sum above total leaves nothing: 0
FlexUnit(cs, rs) ==
    LET rest == TotalExtent - FixedSum(cs, rs, Len(cs))
    IN  IF FlexCount(cs) = 0 \/ rest < 0 THEN 0 ELSE rest \div FlexCount(cs)

\* C27: flexible sizing in Layout::split: flex_unit = floor((total - fixed_sum)
\* / flex_count), or 0 when there is no flexible constraint, where fixed_sum is
\* the sum of the resolved Length/Percentage/Ratio sizes and flex_count counts
\* Fill, Min and Max; Fill gets flex_unit, Min(n) gets max(flex_unit, n),
\* Max(n) gets min(flex_unit, n); the remainder of the division goes to no
\* segment (Length(2), Fill, Fill over extent 10 gives 2, 4, 4).
C27_FlexibleSizing ==
    split_call.done /\ ~split_call.out.panic =>
        LET cs == split_call.layout.constraints
            rs == split_call.out.rects
            unit == FlexUnit(cs, rs)
        IN  /\ Len(rs) = Len(cs)
            /\ \A i \in 1..Len(cs) :
                  /\ cs[i].kind = "Fill" => AxisSize(rs[i]) = unit
                  /\ cs[i].kind = "Min" =>
                        AxisSize(rs[i]) = IF unit > cs[i].a THEN unit ELSE cs[i].a
                  /\ cs[i].kind = "Max" =>
                        AxisSize(rs[i]) = IF unit < cs[i].a THEN unit ELSE cs[i].a
            /\ (cs = <<Length(2), Fill, Fill>> /\ TotalExtent = 10) =>
                  AxisSize(rs[1]) = 2 /\ AxisSize(rs[2]) = 4 /\ AxisSize(rs[3]) = 4

\* C28: fixed constraints resolve to the exact mathematical value: for every
\* 16-bit total extent, Percentage(p) with 0 <= p <= 100 resolves to
\* floor(p x total / 100) and Ratio(num, den) with den > 0 and num <= den to
\* floor(total x num / den), with no wraparound or truncation of intermediate
\* products.
C28_ExactFixedSizes ==
    split_call.done /\ Len(split_call.layout.constraints) = 1 =>
        LET c == split_call.layout.constraints[1]
            out == split_call.out
        IN  /\ c.kind = "Percentage" /\ c.a <= 100 =>
                  /\ ~out.panic
                  /\ Len(out.rects) = 1
                  /\ AxisSize(out.rects[1]) = (c.a * TotalExtent) \div 100
            /\ c.kind = "Ratio" /\ c.b > 0 /\ c.a <= c.b =>
                  /\ ~out.panic
                  /\ Len(out.rects) = 1
                  /\ AxisSize(out.rects[1]) = (TotalExtent * c.a) \div c.b

-----------------------------------------------------------------------------
(* SpecFrame: one Frame over a square buffer, its calls in any order *)

FrameStyles == {Style("Red"), Style("Blue")}
FrameOrigins == {<<0, 0>>, <<1, 1>>}

\* the texts written: "", "a", "ab", ...
Letters == <<"a", "b", "c", "d", "e", "f", "g", "h">>
Texts == {SubSeq(Letters, 1, n) : n \in 0..MaxText}

\* x and y given to write_str: the origin of the frame, and the largest u16
WriteCoords == {0, 65535}

\* the areas given to render_area: one cell wide and high, on the second row and
\* on the second column
SubRects == {RectNew(0, 1, 1, 1), RectNew(1, 0, 1, 1)}

InitFrame ==
    /\ profile \in {"debug", "release"}
    /\ \E o \in FrameOrigins :
          frame = FrameNew(StyledBufferNew(MaxSide, MaxSide, profile).buf,
                           RectNew(o[1], o[2], MaxSide, MaxSide))
    /\ frame_call = NoFrameCall
    /\ panicked = "none"
    /\ current_buffer = NoBuffer
    /\ next_buffer = NoBuffer
    /\ phase = "off"
    /\ writes = <<>>
    /\ rres = "none"
    /\ rprev = NoBuffer
    /\ last_ok = {}
    /\ again = FALSE
    /\ bop = NoSet
    /\ buffer = ParserNew
    /\ stream = <<>>
    /\ emitted = <<>>
    /\ was_pending = FALSE
    /\ last = NoCall
    /\ InputIdle
    /\ TermOff
    /\ LayoutOff
    /\ StyleOff

NextFrame ==
    \/ \E style \in FrameStyles : SetStyle(style)
    \/ ResetStyle
    \/ \E style \in FrameStyles : WithStyleEnter(style)
    \/ WithStyleExit
    \/ \E x \in WriteCoords : \E y \in WriteCoords : \E text \in Texts : WriteStr(x, y, text)
    \/ \E area \in SubRects : RenderAreaEnter(area)
    \/ RenderAreaExit

SpecFrame == InitFrame /\ [][NextFrame]_vars

\* the cells of the Frame's buffer that the last call changed
ChangedCells ==
    {k \in 1..Len(frame.buffer.content) : frame.buffer.content[k] # frame_call.pre.content[k]}

\* C29: Frame::with_style is scoped: inside body the current style is the given
\* style, and after with_style returns the current style equals the style in
\* force before the call, whatever body did (set_style, reset_style, nested
\* with_style calls); cells written after the call carry the earlier style.
C29_WithStyleScoped ==
    /\ frame_call.op = "with_style" => frame.current_style = frame_call.style
    /\ frame_call.op = "with_style.return" => frame_call.after_exit = {frame.current_style}
    /\ (frame_call.op = "write_str" /\ frame_call.after_exit # {}) =>
          \A k \in ChangedCells : frame_call.after_exit = {frame.buffer.content[k].style}

\* a with_style called under the default style returned after its body had
\* left the style Blue: the default style is back
C29_Witness ==
    /\ frame_call.op = "with_style.return"
    /\ frame_call.before = Style("Blue")
    /\ frame_call.after_exit = {StyleDefault}
    /\ frame.current_style = StyleDefault

\* the characters of the last write_str that belong to the buffer cell (cx, cy):
\* the i with (origin.x + x + i, origin.y + y) = (cx, cy)
CharsAt(cx, cy) ==
    {i \in 0..(Len(frame_call.text) - 1) :
        /\ frame.area.x + frame_call.x + i = cx
        /\ frame.area.y + frame_call.y = cy}

\* C30: Frame::write_str(x, y, text) writes the i-th character of text, with
\* the current style, to buffer cell (origin.x + x + i, origin.y + y) when that
\* cell is inside the buffer and drops it otherwise; it never fails, never
\* changes a cell outside that run, and never wraps a character onto another
\* row or back to an earlier column.
C30_WriteStrRun ==
    frame_call.op = "write_str" =>
        /\ ~frame_call.panic
        /\ \A cx \in 0..(frame.buffer.width - 1) : \A cy \in 0..(frame.buffer.height - 1) :
              LET k == cy * frame.buffer.width + cx + 1
              IN  frame.buffer.content[k] =
                      IF CharsAt(cx, cy) = {} THEN frame_call.pre.content[k]
                      ELSE LET i == CHOOSE j \in CharsAt(cx, cy) : TRUE
                           IN  StyledCell(frame_call.text[i + 1], frame_call.before)


\* the buffer cell that character i of the last write_str is aimed at: the
\* sub-rect's top-left plus the coordinates given
TargetOf(i) == <<frame.area.x + frame_call.x + i, frame.area.y + frame_call.y>>

\* the target is a cell of the buffer
InsideBuffer(t) == t[1] < frame.buffer.width /\ t[2] < frame.buffer.height

\* C31: inside render_area(subRect, body), drawing at (x, y) lands on buffer
\* cell (subRect.x + x, subRect.y + y) and nowhere else, at any depth of nested
\* render_area calls; nothing is clipped to subRect's width or height: a
\* character lands whenever its target cell is inside the buffer.
C31_RenderAreaTranslates ==
    (frame_call.op = "write_str" /\ frame.parents # <<>>) =>
        /\ ~frame_call.panic
        /\ \A i \in 0..(Len(frame_call.text) - 1) :
              InsideBuffer(TargetOf(i)) =>
                  frame.buffer.content[TargetOf(i)[2] * frame.buffer.width + TargetOf(i)[1] + 1]
                      = StyledCell(frame_call.text[i + 1], frame_call.before)
        /\ \A k \in ChangedCells :
              \E i \in 0..(Len(frame_call.text) - 1) :
                  /\ InsideBuffer(TargetOf(i))
                  /\ k = TargetOf(i)[2] * frame.buffer.width + TargetOf(i)[1] + 1


-----------------------------------------------------------------------------
(* SpecHex: one Color::from_hex call on a string *)

\* the hex digits of the well-formed inputs, and what is put around them
Digits == {"0", "7", "a", "F"}
HexPrefixes == {<<>>, <<"#">>, <<"#", "#">>, <<"+">>, <<"-">>}
HexSuffixes == {<<>>, <<"0">>, <<"#">>}

\* the chars of the freely chosen inputs: a digit, the signs, '#', a letter that
\* is no hex digit, and a char of two bytes
HexChars == {"F", "+", "-", "#", "g", "é"}

InitHex ==
    /\ hex_call = NoHexCall
    /\ buffer = ParserNew
    /\ stream = <<>>
    /\ emitted = <<>>
    /\ was_pending = FALSE
    /\ last = NoCall
    /\ InputIdle
    /\ TermOff
    /\ RenderOff
    /\ LayoutOff
    /\ FrameOff

\* from_hex on six hex digits with something before and after them
FromHexDigits ==
    /\ ~hex_call.done
    /\ \E pre \in HexPrefixes : \E d \in [1..6 -> Digits] : \E suf \in HexSuffixes :
          FromHex(pre \o d \o suf)

\* from_hex on any short string
FromHexAny ==
    /\ ~hex_call.done
    /\ \E n \in 0..MaxHexLen : \E t \in [1..n -> HexChars] : FromHex(t)

NextHex == FromHexDigits \/ FromHexAny

SpecHex == InitHex /\ [][NextHex]_vars

\* the 22 hexadecimal digits
IsHexDigit(c) ==
    c \in {"0", "1", "2", "3", "4", "5", "6", "7", "8", "9",
           "a", "b", "c", "d", "e", "f", "A", "B", "C", "D", "E", "F"}

\* six hexadecimal digits
SixHexDigits(s) == Len(s) = 6 /\ \A k \in 1..6 : IsHexDigit(s[k])

\* six hexadecimal digits, optionally preceded by one '#'
WellFormedHex(s) ==
    \/ SixHexDigits(s)
    \/ s # <<>> /\ s[1] = "#" /\ SixHexDigits(Tail(s))

\* the byte written by two hexadecimal digits
ByteOf(hi, lo) == 16 * to_digit(hi) + to_digit(lo)

\* C32: Color::from_hex returns Rgb(r, g, b), the three bytes the digit pairs
\* write, exactly when the input is six hexadecimal digits optionally preceded
\* by one '#'; on every other string it returns no color, and it never panics.
C32_FromHex ==
    hex_call.done =>
        LET s == hex_call.hex
            d == IF SixHexDigits(s) THEN s ELSE Tail(s)
        IN  /\ ~hex_call.out.panic
            /\ WellFormedHex(s) =>
                  hex_call.out.color = {Rgb(ByteOf(d[1], d[2]), ByteOf(d[3], d[4]),
                                            ByteOf(d[5], d[6]))}
            /\ ~WellFormedHex(s) => hex_call.out.color = {}


-----------------------------------------------------------------------------
(* The runtime loop of run_app (src/lib.rs) *)

\* the steps of one iteration follow the program order: the size query with
\* the fresh buffer and draw, the writes of the flush, the device calls of one
\* read cycle, the dispatch of its events, the sleep; an error or Quit leaves
\* the loop for the teardown
LoopOrder ==
    /\ tpc = "loop.size" => tpc' \in {"loop.render", "loop.input", "drop.mouse"}
    /\ tpc = "loop.render" => tpc' \in {"loop.render", "loop.input", "drop.mouse"}
    /\ tpc = "loop.input" => tpc' \in {"loop.input", "loop.dispatch"}
    /\ tpc = "loop.dispatch" => tpc' \in {"loop.dispatch", "loop.size", "drop.mouse"}
    /\ (tpc = "loop.dispatch" /\ tpc' = "loop.size") => batch = <<>>
    /\ (tpc = "loop.dispatch" /\ batch # <<>> /\ tpc' = "loop.dispatch") => batch' = Tail(batch)
    /\ (tpc = "loop.input" /\ tpc' = "loop.dispatch") => batch' = cyc'.events
    /\ tpc \in {"loop.input", "loop.dispatch"} => wsize' = wsize /\ held' = held

\* SpecLoop: the loop of run_app, seen either from the device and the
\* application (SpecTerm) or from the buffers it makes and renders (SpecRender)
InitLoop == InitTerm \/ InitRender
NextLoop == NextTerm \/ NextRender
SpecLoop == InitLoop /\ [][NextLoop]_vars

\* C34: every iteration of the loop of run_app makes its steps in the order
\* size query, draw on a fresh all-blank buffer of exactly the queried size,
\* flush, one read cycle, dispatch of the events in order, sleep, and in no
\* other order: the buffer made for draw has width x height cells for the
\* width and height queried (and making it does not end the program).
C34_LoopIteration ==
    /\ [][LoopOrder]_vars
    /\ [](~(phase = "rendered" /\ panicked = "overflow"))
    /\ [](phase = "draw" =>
            Len(next_buffer.content) = next_buffer.width * next_buffer.height)


-----------------------------------------------------------------------------
(* SpecPaint: SpecRender on small frames whose cells are drawn with a style *)

\* the sizes of the frames: one cell, two in a row, two in a column
PaintDims == {<<1, 1>>, <<2, 1>>, <<1, 2>>}

\* the x and y drawn at: inside these frames and just outside
PaintCoords == {0, 1, 2}

InitPaint ==
    /\ profile \in {"debug", "release"}
    /\ \E d \in PaintDims : current_buffer = BufferNew(d[1], d[2], profile).buf
    /\ panicked = "none"
    /\ next_buffer = NoBuffer
    /\ phase = "start"
    /\ writes = <<>>
    /\ rres = "none"
    /\ rprev = NoBuffer
    /\ last_ok = {}
    /\ again = FALSE
    /\ bop = NoSet
    /\ buffer = ParserNew
    /\ stream = <<>>
    /\ emitted = <<>>
    /\ was_pending = FALSE
    /\ last = NoCall
    /\ InputIdle
    /\ TermOff
    /\ LayoutOff
    /\ FrameOff
    /\ StyleOff

NextPaint ==
    \/ \E d \in PaintDims : NewFrame(d[1], d[2])
    \/ \E x \in PaintCoords : \E y \in PaintCoords : Draw(x, y, "X")
    \/ \E x \in PaintCoords : \E y \in PaintCoords : \E style \in {StyleDefault, Style("Red")} :
          DrawStyled(x, y, "é", style)
    \/ \E done \in 0..Len(RenderPlan(current_buffer, next_buffer)) : Render(done)

SpecPaint == InitPaint /\ [][NextPaint]_vars


\* the Unicode scalar value of the symbols drawn
CodePoint(symbol) ==
    CASE symbol = " " -> 32
      [] symbol = "X" -> 88
      [] symbol = "é" -> 233

\* the writes of the last render call that follow its clear, if it made one
CellWritesOf(ws) == IF ws # <<>> /\ ws[1] = ClearWrite THEN Tail(ws) ELSE ws

\* write j (1-based) is the right one of the three writes for its Change
IsWriteOf(w, change, j) ==
    CASE j % 3 = 1 -> w.kind = "cursor" /\ w.row = change.y + 1 /\ w.col = change.x + 1
      [] j % 3 = 2 -> w.kind = "style" /\ w.symbol = to_ansi(change.cell.style)
      [] OTHER -> w.kind = "symbol" /\ utf8_scalar(w.symbol) = CodePoint(change.cell.symbol)

\* C35: for each Change of the diff, in the diff's row-major order, render
\* makes three writes: the cursor position with row y + 1 and column x + 1, the
\* cell's style sequence, the cell's symbol in UTF-8; the held buffer is replaced
\* by next only once all Changes are written.
C35_ThreeWritesPerChange ==
    (phase = "rendered" /\ rres # "none") =>
        LET changes == diff(next_buffer, rprev)
            ws == CellWritesOf(writes)
        IN  /\ Len(ws) <= 3 * Len(changes)
            /\ \A j \in DOMAIN ws : IsWriteOf(ws[j], changes[((j - 1) \div 3) + 1], j)
            /\ \A k \in 2..Len(changes) :
                  PlaceOf(next_buffer, changes[k - 1]) < PlaceOf(next_buffer, changes[k])
            /\ rres = "ok" => Len(ws) = 3 * Len(changes)
            /\ current_buffer = next_buffer => (rres = "ok" \/ rprev = next_buffer)
            /\ rres = "ok" => current_buffer = next_buffer

\* a frame of two cells, the first é in red and the second X, rendered from a
\* blank held buffer: six writes, the first three for (0, 0), and next is held
C35_Witness ==
    /\ phase = "rendered" /\ rres = "ok"
    /\ next_buffer.width = 1 /\ next_buffer.height = 2
    /\ EqualDims(next_buffer, rprev)
    /\ Len(writes) = 6
    /\ writes[1] = [kind |-> "cursor", row |-> 1, col |-> 1, symbol |-> ""]
    /\ writes[2].symbol.codes = <<"0", "31">>
    /\ writes[3].symbol = <<195, 169>>
    /\ writes[4] = [kind |-> "cursor", row |-> 2, col |-> 1, symbol |-> ""]
    /\ writes[6].symbol = <<88>>
    /\ current_buffer = next_buffer


\* the terminal as a grid: the cells written since the last clear, by
\* <<row, column>> (1-based; every other cell is blank), the cursor, and the
\* style in force
Screen(grid, row, col, pen) == [grid |-> grid, row |-> row, col |-> col, pen |-> pen]

\* the grid that shows buffer b: cell i of its row-major sequence at row
\* (i - 1) div width + 1, column (i - 1) mod width + 1
GridOf(b) ==
    [p \in {<<((i - 1) \div b.width) + 1, ((i - 1) % b.width) + 1>> : i \in DOMAIN b.content} |->
        b.content[CHOOSE i \in DOMAIN b.content :
                     p = <<((i - 1) \div b.width) + 1, ((i - 1) % b.width) + 1>>]]

\* the style a style sequence selects: reset, then the foreground named
PenOf(seq) ==
    IF Len(seq.codes) = 1 THEN StyleDefault
    ELSE Style(CHOOSE color \in {"Red", "Blue"} : to_ansi_fg(color) = seq.codes[2])

\* the symbol a UTF-8 encoding shows
SymbolOf(bytes) == CHOOSE symbol \in {" ", "X", "é"} : CodePoint(symbol) = utf8_scalar(bytes)

\* what one write does to the terminal
ApplyWrite(sc, w) ==
    CASE w.kind = "clear" -> [sc EXCEPT !.grid = <<>>]
      [] w.kind = "cursor" -> [sc EXCEPT !.row = w.row, !.col = w.col]
      [] w.kind = "style" -> [sc EXCEPT !.pen = PenOf(w.symbol)]
      [] OTHER ->
           [sc EXCEPT !.grid = [p \in DOMAIN sc.grid \cup {<<sc.row, sc.col>>} |->
                                  IF p = <<sc.row, sc.col>>
                                  THEN StyledCell(SymbolOf(w.symbol), sc.pen)
                                  ELSE sc.grid[p]],
                      !.col = sc.col + 1]

RECURSIVE ApplyWrites(_, _)
ApplyWrites(sc, ws) ==
    IF ws = <<>> THEN sc ELSE ApplyWrites(ApplyWrite(sc, Head(ws)), Tail(ws))

\* the cell the grid shows at p
Shown(grid, p) == IF p \in DOMAIN grid THEN grid[p] ELSE DefaultCell

\* C36: the renderer keeps the screen equal to the last frame: a terminal that
\* shows the held buffer (blank after run_app's initial clear) shows, after a
\* render whose writes all succeeded, next cell for cell and nothing else, and
\* the held buffer is next; also when the size changed and when a cell drawn
\* before is no longer drawn.
C36_ScreenIsLastFrame ==
    (phase = "rendered" /\ rres = "ok") =>
        LET after == ApplyWrites(Screen(GridOf(rprev), 1, 1, StyleDefault), writes).grid
            shown == GridOf(next_buffer)
        IN  /\ \A p \in DOMAIN shown \cup DOMAIN after : Shown(after, p) = Shown(shown, p)
            /\ current_buffer = next_buffer

\* a held frame of two cells in a row with a red é in the second, then a frame
\* of two cells in a column with only an X in the second: the red é is gone
C36_Witness ==
    /\ phase = "rendered" /\ rres = "ok"
    /\ rprev = MakeBuffer(2, 1, <<DefaultCell, StyledCell("é", Style("Red"))>>)
    /\ next_buffer = MakeBuffer(1, 2, <<DefaultCell, Cell("X")>>)
    /\ writes[1] = ClearWrite
    /\ current_buffer = next_buffer


\* every write render makes for new against the held old when none fails, as
\* the claims describe them: the clear on a size change, then three per Change
ExpectedWrites(old, new) ==
    LET changes == diff(new, old)
    IN  (IF EqualDims(new, old) THEN <<>> ELSE <<ClearWrite>>)
        \o [j \in 1..(3 * Len(changes)) |->
              LET change == changes[((j - 1) \div 3) + 1]
              IN  CASE j % 3 = 1 ->
                         [kind |-> "cursor", row |-> change.y + 1, col |-> change.x + 1,
                          symbol |-> ""]
                    [] j % 3 = 2 ->
                         [kind |-> "style", row |-> 0, col |-> 0,
                          symbol |-> to_ansi(change.cell.style)]
                    [] OTHER ->
                         [kind |-> "symbol", row |-> 0, col |-> 0,
                          symbol |-> encode_utf8(change.cell.symbol)]]

\* C37: when a device write fails part-way through render, render returns the
\* error without replacing the held buffer: the held buffer is the one held
\* before the call although cells of next may have reached the device, and no
\* write is made after the failed one.
C37_FailedRenderKeepsHeld ==
    (phase = "rendered" /\ rres = "err") =>
        /\ current_buffer = rprev
        /\ writes # <<>>
        /\ Len(writes) <= Len(ExpectedWrites(rprev, next_buffer))
        /\ writes = SubSeq(ExpectedWrites(rprev, next_buffer), 1, Len(writes))

\* a frame with an X in each of its two cells over a blank held buffer: the
\* first X reached the device, the cursor write for the second failed, and the
\* held buffer is still blank
C37_Witness ==
    /\ phase = "rendered" /\ rres = "err"
    /\ next_buffer = MakeBuffer(2, 1, <<Cell("X"), Cell("X")>>)
    /\ rprev = MakeBuffer(2, 1, <<DefaultCell, DefaultCell>>)
    /\ Len(writes) = 4
    /\ writes[3].symbol = <<88>>
    /\ current_buffer = rprev

-----------------------------------------------------------------------------
(* the residual queue between calls *)

\* C38: after any parse calls on any bytes the residual queue is either empty
\* or exactly one incomplete prefix that starts at its front (ESC; ESC [;
\* ESC [ M with at most two data bytes; a UTF-8 lead byte of width w with fewer
\* than w - 1 bytes after it): it never holds more than 5 bytes and never
\* begins with a complete decodable unit.
C38_ResidualQueue ==
    /\ buffer = <<>> \/ IsIncompletePrefix(buffer)
    /\ Len(buffer) <= 5
    /\ UnitLen(buffer) = 0
    /\ (buffer # <<>> /\ buffer[1] # ESC =>
            Len(buffer) - 1 < EncodingLen(buffer[1]) - 1 /\ EncodingLen(buffer[1]) >= 2)

\* events were returned and a mouse report that lacks its last byte is held
C38_Witness ==
    /\ Parsed
    /\ emitted # <<>>
    /\ buffer = <<ESC, LBRACKET, UPPER_M, ESC, CR>>

-----------------------------------------------------------------------------
(* sub-rects inside the parent *)

\* the exact size of a Length, Percentage or Ratio constraint over the extent
\* total: l, floor(p x total / 100), floor(total x num / den)
ExactSize(c, total) ==
    IF c.kind = "Length" THEN c.a
    ELSE IF c.kind = "Percentage" THEN (c.a * total) \div 100
    ELSE (total * c.a) \div c.b

\* the sum of the exact sizes of the Length, Percentage and Ratio constraints
\* among the first k of cs
RECURSIVE ExactFixedSum(_, _, _)
ExactFixedSum(cs, total, k) ==
    IF k = 0 THEN 0
    ELSE ExactFixedSum(cs, total, k - 1)
         + (IF cs[k].kind \in {"Length", "Percentage", "Ratio"}
            THEN ExactSize(cs[k], total) ELSE 0)

\* no constraint is Min and the fixed sizes fit the total extent
FitsParent ==
    LET cs == split_call.layout.constraints
    IN  /\ \A i \in 1..Len(cs) : cs[i].kind # "Min" /\ (cs[i].kind = "Ratio" => cs[i].b > 0)
        /\ ExactFixedSum(cs, TotalExtent, Len(cs)) <= TotalExtent

\* C39: when no constraint is Min and the resolved sizes of the Length,
\* Percentage and Ratio constraints sum to at most the total extent, the sizes
\* Layout::split returns sum to at most the total extent, and every sub-rect
\* lies within the parent rectangle on the split axis.
C39_SubRectsInsideParent ==
    split_call.done /\ ~split_call.out.panic /\ FitsParent =>
        LET rs == split_call.out.rects
            parent == split_call.rect
        IN  /\ SizesBefore(rs, Len(rs)) <= TotalExtent
            /\ \A i \in 1..Len(rs) :
                  /\ AxisStart(rs[i]) >= AxisStart(parent)
                  /\ AxisStart(rs[i]) + AxisSize(rs[i]) <= AxisStart(parent) + TotalExtent

-----------------------------------------------------------------------------
(* the events the decoder emits *)

\* the key codes the decoder is wired for
WiredCodes == {"Char", "Enter", "Esc", "Up"}

\* C40: whatever bytes are fed and however parse and finish_incomplete are
\* interleaved, every event a call returns is a Key event whose code is Char,
\* Enter, Esc or Up with an empty modifier set, or a Mouse event; never a
\* Resize, another key code or a non-empty modifier set.
C40_OnlyWiredEvents ==
    \A i \in 1..Len(last.events) :
        LET e == last.events[i]
        IN  \/ e.tag = "Mouse"
            \/ /\ e.tag = "Key"
               /\ e.code.name \in WiredCodes
               /\ e.modifiers = {}

\* a parse call that found a held-back prefix returned a Mouse event and a key
C40_Witness ==
    /\ last.op = "parse"
    /\ Len(last.pre) >= 4
    /\ Len(last.events) = 2
    /\ last.events[1].tag = "Mouse"
    /\ last.events[2].tag = "Key" /\ last.events[2].code.name = "Enter"

=============================================================================
